---- MODULE Spec2Model ----
(***************************************************************************)
(* Verification model of the writing-mirror repository.  Twelve state      *)
(* machines share the variables; each starts with the others idle.         *)
(*   SpecEngine   ContextSuggestionEngine: construction and                *)
(*                generate_suggestions                                     *)
(*                (app/services/context_suggestion_engine.py)              *)
(*   SpecScoring  _calculate_hybrid_score, adjust_for_query_specificity,   *)
(*                boost_exact_matches (app/services/hybrid_search_engine.py)*)
(*   SpecCurator  diversify_sources (app/services/hybrid_search_engine.py) *)
(*   SpecApi      the /api/suggest handler (app/api/suggest.py)            *)
(*   SpecLlm      LLMService.generate_suggestions                          *)
(*                (app/services/llm_service.py)                            *)
(*   SpecStore    VectorService.store_vectors                              *)
(*                (app/services/vector_service.py)                         *)
(*   SpecSearch   HybridSearchEngine.search                                *)
(*                (app/services/hybrid_search_engine.py)                   *)
(*   SpecConcurrent  two requests on one HybridSearchEngine and one        *)
(*                ContextSuggestionEngine                                  *)
(*   SpecFactors  _calculate_temporal_score and _calculate_source_score    *)
(*                (app/services/hybrid_search_engine.py)                   *)
(*   SpecPatterns _extract_writing_patterns                                *)
(*                (app/services/context_suggestion_engine.py)              *)
(*   SpecTrace    the trace ids of two POSTs (app/api/suggest.py)          *)
(*   SpecSync     IntegrationService.sync_documents                        *)
(*                (app/services/integration_service.py)                    *)
(*                                                                         *)
(* Text.  A Python str is modelled as a sequence of tokens.  A token is a  *)
(* maximal run of letters (a word), one blank " ", one punctuation mark    *)
(* (".", ",", "!", "?") or the literal "..." the code appends.  Substring  *)
(* tests, str.split, str.strip and the regular expressions of the code are *)
(* computed on tokens.  The vocabulary of the inputs is chosen so that no  *)
(* word contains another word of the vocabulary or a keyword of the code   *)
(* as a proper substring, so a token-level substring test agrees with the  *)
(* character-level one.  Inputs hold no line break.  Character counts      *)
(* (len(s), s[:n]) are the sums of the token lengths.                      *)
(*                                                                         *)
(* Numbers.  Confidences are in thousandths (0.7 is 700).  Composite       *)
(* scores are in units of 1/ONE, chosen so that every product with a       *)
(* weight and with the factors 0.9, 1.1 and 1.2 is an integer.             *)
(***************************************************************************)
EXTENDS Integers, Sequences, FiniteSets, TLC

(***************************************************************************)
(* Bounds of the model.                                                    *)
(***************************************************************************)
MaxResults == 2

(***************************************************************************)
(* Generic sequence helpers (Python list semantics).                       *)
(***************************************************************************)
Min2(a, b) == IF a <= b THEN a ELSE b

Max2(a, b) == IF a >= b THEN a ELSE b

\* s[:n]
Take(s, n) == SubSeq(s, 1, Min2(n, Len(s)))

\* s[n:]  (0-based n, as in Python)
Drop(s, n) == SubSeq(s, n + 1, Len(s))

\* s[-n:]
LastN(s, n) == SubSeq(s, Max2(1, Len(s) - n + 1), Len(s))

RECURSIVE Flatten(_)
Flatten(ss) == IF ss = <<>> THEN <<>> ELSE Head(ss) \o Flatten(Tail(ss))

SeqFilter(s, Test(_)) == SelectSeq(s, Test)

IsIn(x, s) == \E i \in 1..Len(s) : s[i] = x

\* number of elements of s equal to x
CountOf(x, s) == Cardinality({i \in 1..Len(s) : s[i] = x})

\* the entries of s at the indices that pass Keep, in order
AtIndices(s, Keep(_)) ==
    LET idx == SelectSeq([i \in 1..Len(s) |-> i] \o <<>>, Keep)
    IN  [k \in 1..Len(idx) |-> s[idx[k]]] \o <<>>

\* the distinct elements of s in order of first occurrence (dict insertion order)
Distinct(s) ==
    LET First(i) == \A j \in 1..(i - 1) : s[j] /= s[i]
    IN  AtIndices(s, First)

\* list.sort(key=Key, reverse=True): stable, so elements with equal keys keep
\* their order.  The element at index i lands after every element with a
\* greater key and after the equal-keyed elements that precede it.
SortDesc(s, Key(_)) ==
    LET n == Len(s)
        keys == [i \in 1..n |-> Key(s[i])] \o <<>>
        rank == [i \in 1..n |->
                    1 + Cardinality({j \in 1..n :
                            \/ keys[j] > keys[i]
                            \/ (keys[j] = keys[i] /\ j < i)})] \o <<>>
    IN  [p \in 1..n |-> s[CHOOSE i \in 1..n : rank[i] = p]]

(***************************************************************************)
(* Text helpers (Python str semantics on token sequences).                 *)
(***************************************************************************)
Blank == " "

EndMarks == {".", "!", "?"}

\* str.lower() of one token: the capitalised words of the vocabulary
LowerTok(t) ==
    CASE t = "Please" -> "please"
      [] t = "Reply" -> "reply"
      [] t = "However" -> "however"
      [] t = "Thanks" -> "thanks"
      [] t = "Let" -> "let"
      [] t = "For" -> "for"
      [] t = "Career" -> "career"
      [] t = "Knowledge" -> "knowledge"
      [] OTHER -> t

\* str.lower()
Lower(s) == [i \in 1..Len(s) |-> LowerTok(s[i])]

\* len(s) in characters
RECURSIVE CharLen(_)
CharLen(s) == IF s = <<>> THEN 0 ELSE Len(Head(s)) + CharLen(Tail(s))

\* str.strip()
Strip(s) ==
    LET solid == {i \in 1..Len(s) : s[i] /= Blank}
    IN  IF solid = {} THEN <<>>
        ELSE SubSeq(s, CHOOSE i \in solid : \A j \in solid : i <= j,
                       CHOOSE i \in solid : \A j \in solid : i >= j)

\* needle occurs in hay at position i (1-based)
MatchAt(hay, needle, i) ==
    /\ i >= 1
    /\ i + Len(needle) - 1 <= Len(hay)
    /\ \A k \in 1..Len(needle) : hay[i + k - 1] = needle[k]

\* needle in hay
Contains(hay, needle) == \E i \in 1..(Len(hay) + 1) : MatchAt(hay, needle, i)

\* hay.find(needle), 1-based; 0 when absent
Find(hay, needle) ==
    IF Contains(hay, needle)
    THEN CHOOSE i \in 1..(Len(hay) + 1) :
            /\ MatchAt(hay, needle, i)
            /\ \A j \in 1..(i - 1) : ~MatchAt(hay, needle, j)
    ELSE 0

\* s.endswith(('.', '!', '?'))
EndsWithMark(s) == s /= <<>> /\ s[Len(s)] \in EndMarks

\* str.split(sep) for a one-token separator: always at least one piece
SplitOn(s, sep) ==
    LET at == {i \in 1..Len(s) : s[i] = sep}
        \* the position of the k-th separator; 0 before the first, Len(s)+1 after the last
        pos == [k \in 0..(Cardinality(at) + 1) |->
                    IF k = 0 THEN 0
                    ELSE IF k = Cardinality(at) + 1 THEN Len(s) + 1
                    ELSE CHOOSE i \in at : Cardinality({j \in at : j < i}) = k - 1]
    IN  [k \in 1..(Cardinality(at) + 1) |-> SubSeq(s, pos[k - 1] + 1, pos[k] - 1)] \o <<>>

IsNonEmpty(s) == s /= <<>>

\* str.split(): the runs of non-blank tokens
SplitWs(s) == SeqFilter(SplitOn(s, Blank), IsNonEmpty)

\* ' '.join(words)
RECURSIVE JoinSp(_)
JoinSp(ws) ==
    IF ws = <<>> THEN <<>>
    ELSE IF Len(ws) = 1 THEN ws[1]
    ELSE ws[1] \o <<Blank>> \o JoinSp(Tail(ws))

\* s[:n] in characters.  Exact when the cut falls between two tokens (in
\* particular when the whole string fits); a cut inside a token keeps the
\* tokens before it.
Truncate(s, n) ==
    LET fits == {k \in 0..Len(s) : CharLen(SubSeq(s, 1, k)) <= n}
    IN  SubSeq(s, 1, CHOOSE k \in fits : \A k2 \in fits : k >= k2)

Dots == "..."


Punct == {Blank, ".", ",", "!", "?", Dots}

\* a token matched by [a-zA-Z]+
IsWord(t) == t \notin Punct

(***************************************************************************)
(* ContextSuggestionEngine: text analysis.                                 *)
(***************************************************************************)
ContainsAny(s, needles) == \E n \in needles : Contains(s, n)

DetectTone(text) ==
    LET text_lower == Lower(text)
    IN  IF ContainsAny(text_lower, {<<"please">>, <<"thanks">>,
                                    <<"thank", Blank, "you">>, <<"kindly">>})
        THEN "polite"
        ELSE IF ContainsAny(text_lower, {<<"!">>, <<"excited">>, <<"amazing">>, <<"great">>})
        THEN "enthusiastic"
        ELSE IF ContainsAny(text_lower, {<<"however">>, <<"unfortunately">>,
                                         <<"issue">>, <<"problem">>})
        THEN "serious"
        ELSE "neutral"

ClassifyContext(context) ==
    LET context_lower == Lower(context)
    IN  IF Contains(context_lower, <<"email">>) THEN "email"
        ELSE IF Contains(context_lower, <<"job">>) \/ Contains(context_lower, <<"career">>)
        THEN "professional"
        ELSE IF Contains(context_lower, <<"personal">>) THEN "personal"
        ELSE "general"

stop_words == {"that", "this", "with", "from", "they", "have", "will", "been",
               "your", "what", "when", "where"}

IsKeyword(t) == IsWord(t) /\ Len(t) >= 4 /\ t \notin stop_words

\* the list `keywords` of _extract_key_topics, duplicates included
Keywords(text) == SeqFilter(Lower(text), IsKeyword)

MaxTopics == 5

\* list(set(keywords))[:5]: a set of str has no order the program fixes (the
\* hash of a str changes from one interpreter run to the next), so every
\* arrangement of the distinct keywords is a possible result
ExtractKeyTopics(text) ==
    LET ks == {Keywords(text)[i] : i \in 1..Len(Keywords(text))}
        k  == Min2(MaxTopics, Cardinality(ks))
    IN  {t \in [1..k -> ks] : \A i, j \in 1..k : t[i] = t[j] => i = j}

\* _analyze_current_text: the entries the engine reads afterwards
AnalyzeCurrentText(text, context, topics) ==
    [tone |-> DetectTone(text),
     context_type |-> ClassifyContext(context),
     ends_with_punctuation |-> EndsWithMark(Strip(text)),
     key_topics |-> topics]

(***************************************************************************)
(* ContextSuggestionEngine: pattern extraction.                            *)
(***************************************************************************)
\* [s.strip() for s in content.split('.') if s.strip()]
Sentences(content) ==
    LET pieces == SplitOn(content, ".")
        stripped == [i \in 1..Len(pieces) |-> Strip(pieces[i])]
    IN  SeqFilter(stripped, IsNonEmpty)

HasThreeWords(sentence) == Len(SplitWs(sentence)) >= 3

\* the sentence starters of one candidate
SentenceStarters(content) ==
    LET ss == SeqFilter(Sentences(content), HasThreeWords)
    IN  [i \in 1..Len(ss) |-> JoinSp(Take(SplitWs(ss[i]), 3))]

\* One regular expression  kw,?\s+.*?[.!?]  (re.IGNORECASE) of _find_transitions:
\* the keyword, an optional comma, at least one blank, then everything up to
\* the first end mark.  TransitionEnd is the last token of the match that
\* starts at i, or 0 when none starts there.
TransitionEnd(content, kw, i) ==
    LET afterKw == i + Len(kw)
        afterComma == IF afterKw <= Len(content) /\ content[afterKw] = ","
                      THEN afterKw + 1 ELSE afterKw
        ends == {j \in (afterComma + 1)..Len(content) : content[j] \in EndMarks}
    IN  IF /\ MatchAt(Lower(content), kw, i)
           /\ afterComma <= Len(content)
           /\ content[afterComma] = Blank
           /\ ends /= {}
        THEN CHOOSE j \in ends : \A j2 \in ends : j <= j2
        ELSE 0

\* re.findall of that expression from token i on: the leftmost match, then
\* the search resumes after it
RECURSIVE FindAllTransition(_, _, _)
FindAllTransition(content, kw, i) ==
    LET starts == {k \in i..Len(content) : TransitionEnd(content, kw, k) > 0}
    IN  IF starts = {} THEN <<>>
        ELSE LET b == CHOOSE k \in starts : \A k2 \in starts : k <= k2
                 e == TransitionEnd(content, kw, b)
             IN  <<SubSeq(content, b, e)>> \o FindAllTransition(content, kw, e + 1)

transition_patterns ==
    << <<"however">>, <<"additionally">>, <<"furthermore">>,
       <<"on", Blank, "the", Blank, "other", Blank, "hand">> >>

MaxTransitions == 5

FindTransitions(content) ==
    Take(Flatten([p \in 1..Len(transition_patterns) |->
                    FindAllTransition(content, transition_patterns[p], 1)]),
         MaxTransitions)

MinNgramChars == 10

\* _extract_ngrams(content, min_len, max_len)
ExtractNgrams(content, min_len, max_len) ==
    LET words == SplitWs(content)
        OfLength(length) ==
            LET all == [i \in 1..Max2(0, Len(words) - length + 1) |->
                            JoinSp(SubSeq(words, i, i + length - 1))]
                LongEnough(ngram) == CharLen(ngram) > MinNgramChars
            IN  SeqFilter(all, LongEnough)
    IN  Flatten([k \in 1..Max2(0, max_len - min_len + 1) |-> OfLength(min_len + k - 1)])

MaxConnectionChars == 100

\* _find_topic_connections: per topic, the first sentence of more than five
\* words that contains it
FindTopicConnections(content, topics) ==
    LET sentences == SplitOn(content, ".")
        Hit(topic, sentence) ==
            /\ Contains(Lower(sentence), <<LowerTok(topic)>>)
            /\ Len(SplitWs(sentence)) > 5
        ForTopic(topic) ==
            LET hits == {i \in 1..Len(sentences) : Hit(topic, sentences[i])}
            IN  IF hits = {} THEN <<>>
                ELSE LET f == CHOOSE i \in hits : \A j \in hits : i <= j
                     IN  << Truncate(Strip(sentences[f]), MaxConnectionChars) \o <<Dots>> >>
    IN  Flatten([t \in 1..Len(topics) |-> ForTopic(topics[t])])

MaxPatterns == 5

\* the first five distinct patterns, whatever their frequency
RankByFirstSeen(patterns) == Take(Distinct(patterns), MaxPatterns)

\* _rank_patterns: Counter(patterns).most_common(5), equal counts in order of
\* first occurrence
RankPatterns(patterns) ==
    LET d == Distinct(patterns)
        Count(p) == CountOf(p, patterns)
    IN  Take(SortDesc(d, Count), MaxPatterns)

MaxAnalysed == 5

\* _extract_writing_patterns
ExtractWritingPatterns(search_results, text_analysis) ==
    LET top == Take(search_results, MaxAnalysed)
        Per(F(_)) == Flatten([i \in 1..Len(top) |-> F(top[i].content)])
        Ngrams(content) == ExtractNgrams(content, 2, 4)
        Connections(content) ==
            IF text_analysis.key_topics /= <<>>
            THEN FindTopicConnections(content, text_analysis.key_topics)
            ELSE <<>>
    IN  [common_phrases |-> RankPatterns(Per(Ngrams)),
         sentence_starters |-> RankPatterns(Per(SentenceStarters)),
         transitions |-> RankPatterns(Per(FindTransitions)),
         closings |-> RankPatterns(<<>>),
         tone_examples |-> RankPatterns(<<>>),
         topic_connections |-> RankPatterns(Per(Connections))]

(***************************************************************************)
(* ContextSuggestionEngine: the generator strategies.                      *)
(***************************************************************************)
\* WritingSuggestion, without the two free-text fields no decision reads
WritingSuggestion(text, confidence, suggestion_type) ==
    [text |-> text, confidence |-> confidence, suggestion_type |-> suggestion_type]

\* _suggest_continuation
SuggestContinuation(current_text, patterns, results) ==
    LET starters == Take(patterns.sentence_starters, 3)
        connections == Take(patterns.topic_connections, 2)
    IN  [i \in 1..Len(starters) |->
            WritingSuggestion(starters[i] \o <<Dots>>, 700, "continuation")]
        \o
        [i \in 1..Len(connections) |->
            WritingSuggestion(connections[i], 600, "continuation")]

elaborative_markers ==
    {<<"for", Blank, "example">>, <<"specifically">>, <<"in", Blank, "particular">>,
     <<"furthermore">>, <<"additionally">>}

\* _is_elaborative_content
IsElaborativeContent(content) == ContainsAny(Lower(content), elaborative_markers)

MaxElaborationChars == 80

\* _extract_elaboration_phrase
ExtractElaborationPhrase(content) ==
    LET sentences == SplitOn(content, ".")
        hits == {i \in 1..Len(sentences) :
                    ContainsAny(Lower(sentences[i]),
                                {<<"for", Blank, "example">>, <<"specifically">>})}
    IN  IF hits = {} THEN <<>>
        ELSE LET f == CHOOSE i \in hits : \A j \in hits : i <= j
             IN  Truncate(Strip(sentences[f]), MaxElaborationChars) \o <<Dots>>

\* _suggest_elaboration
SuggestElaboration(current_text, patterns, results) ==
    LET top == Take(results, 2)
        One(result) ==
            IF IsElaborativeContent(result.content)
               /\ ExtractElaborationPhrase(result.content) /= <<>>
            THEN <<WritingSuggestion(ExtractElaborationPhrase(result.content),
                                     600, "elaboration")>>
            ELSE <<>>
    IN  Flatten([i \in 1..Len(top) |-> One(top[i])])

\* _suggest_transition
SuggestTransition(current_text, patterns, results) ==
    LET transitions == Take(patterns.transitions, 2)
    IN  [i \in 1..Len(transitions) |->
            WritingSuggestion(transitions[i], 500, "transition")]

MaxCompletionWords == 8

\* _find_completion_pattern
FindCompletionPattern(incomplete_text, reference_content) ==
    LET incomplete_words == SplitWs(incomplete_text)
        last_two_words == JoinSp(LastN(incomplete_words, 2))
        sentences == SplitOn(reference_content, ".")
        Completion(sentence) ==
            Strip(Drop(sentence,
                       Find(Lower(sentence), Lower(last_two_words)) - 1
                       + Len(last_two_words)))
        Good(sentence) ==
            /\ Contains(Lower(sentence), Lower(last_two_words))
            /\ Completion(sentence) /= <<>>
            /\ Len(SplitWs(Completion(sentence))) <= MaxCompletionWords
        hits == {i \in 1..Len(sentences) : Good(sentences[i])}
    IN  IF Len(incomplete_words) >= 2 /\ hits /= {}
        THEN Completion(sentences[CHOOSE i \in hits : \A j \in hits : i <= j])
        ELSE <<>>

\* _suggest_completion
SuggestCompletion(current_text, patterns, results) ==
    LET hits == {i \in 1..Len(results) :
                    FindCompletionPattern(current_text, results[i].content) /= <<>>}
    IN  IF ~EndsWithMark(Strip(current_text)) /\ hits /= {}
        THEN LET f == CHOOSE i \in hits : \A j \in hits : i <= j
             IN  <<WritingSuggestion(
                        FindCompletionPattern(current_text, results[f].content),
                        700, "completion")>>
        ELSE <<>>

MaxClosingWords == 10

\* the closing sentence _suggest_closing takes from one candidate, if any
ClosingOf(content) ==
    LET content_sentences == SplitOn(content, ".")
        last_sentence == Strip(content_sentences[Len(content_sentences)])
    IN  IF Len(SplitWs(last_sentence)) <= MaxClosingWords /\ last_sentence /= <<>>
        THEN <<last_sentence>>
        ELSE <<>>

\* _suggest_closing
SuggestClosing(current_text, patterns, results) ==
    LET closings == Flatten([i \in 1..Len(results) |-> ClosingOf(results[i].content)])
        Count(c) == CountOf(c, closings)
        common_closings == Take(SortDesc(Distinct(closings), Count), 2)
    IN  [i \in 1..Len(common_closings) |->
            WritingSuggestion(common_closings[i], 600, "closing")]

action_patterns ==
    << <<"let", Blank, "me", Blank, "know">>, <<"please">>, <<"would", Blank, "you">>,
       <<"could", Blank, "you">>, <<"feel", Blank, "free">> >>

\* re.findall(kw + ".*", content, re.IGNORECASE)[:1]: the rest of the content
\* from the first occurrence of the keyword on
FirstActionMatch(content, kw) ==
    IF Contains(Lower(content), kw)
    THEN <<Drop(content, Find(Lower(content), kw) - 1)>>
    ELSE <<>>

\* _suggest_call_to_action
SuggestCallToAction(current_text, patterns, results) ==
    LET One(result) ==
            LET ms == Flatten([p \in 1..Len(action_patterns) |->
                                FirstActionMatch(result.content, action_patterns[p])])
            IN  [i \in 1..Len(ms) |-> WritingSuggestion(ms[i], 500, "call_to_action")]
    IN  Flatten([i \in 1..Len(results) |-> One(results[i])])

(***************************************************************************)
(* ContextSuggestionEngine: ranking, fallback, dispatch.                   *)
(***************************************************************************)
\* boosts that double the confidence where _rank_suggestions multiplies it
BoostDoubled(suggestion, text_analysis) ==
    LET toned == IF text_analysis.tone = "polite"
                    /\ Contains(Lower(suggestion.text), <<"please">>)
                 THEN suggestion.confidence * 2
                 ELSE suggestion.confidence
        typed == IF text_analysis.context_type = "professional"
                    /\ suggestion.suggestion_type \in {"call_to_action", "closing"}
                 THEN toned * 2
                 ELSE toned
    IN  [suggestion EXCEPT !.confidence = typed]

\* the two boosts of _rank_suggestions, applied to one suggestion
BoostConfidence(suggestion, text_analysis) ==
    LET toned == IF text_analysis.tone = "polite"
                    /\ Contains(Lower(suggestion.text), <<"please">>)
                 THEN (suggestion.confidence * 12) \div 10
                 ELSE suggestion.confidence
        typed == IF text_analysis.context_type = "professional"
                    /\ suggestion.suggestion_type \in {"call_to_action", "closing"}
                 THEN (toned * 11) \div 10
                 ELSE toned
    IN  [suggestion EXCEPT !.confidence = typed]

ConfidenceOf(suggestion) == suggestion.confidence

\* a ranking that removes no duplicate
KeepDuplicates(suggestions) == suggestions

\* the "Remove duplicates" loop of _rank_suggestions: the first suggestion of
\* each text is kept
UniqueByText(suggestions) ==
    LET Kept(i) == \A j \in 1..(i - 1) : suggestions[j].text /= suggestions[i].text
        idx == SeqFilter([i \in 1..Len(suggestions) |-> i], Kept)
    IN  [k \in 1..Len(idx) |-> suggestions[idx[k]]]

\* a ranking that boosts and removes duplicates but does not sort
RankWithoutSort(suggestions, text_analysis) ==
    UniqueByText([i \in 1..Len(suggestions) |->
                     BoostConfidence(suggestions[i], text_analysis)] \o <<>>)

\* _rank_suggestions
RankSuggestions(suggestions, text_analysis) ==
    LET boosted == [i \in 1..Len(suggestions) |->
                        BoostConfidence(suggestions[i], text_analysis)]
    IN  UniqueByText(SortDesc(boosted, ConfidenceOf))

FallbackText ==
    <<"continues", Blank, "with", Blank, "clear", Blank, "purpose", Blank, "and",
      Blank, "direction", ".">>

\* a fallback path that has nothing to offer
NoFallback(current_text, context) == <<>>

\* _generate_fallback_suggestions
GenerateFallbackSuggestions(current_text, context) ==
    <<WritingSuggestion(FallbackText, 300, "fallback")>>

\* the dispatch table __init__ builds: category -> the names of its strategies
suggestion_patterns ==
    [continuation |-> <<"_suggest_continuation", "_suggest_elaboration",
                        "_suggest_transition">>,
     completion   |-> <<"_suggest_completion", "_suggest_closing",
                        "_suggest_call_to_action">>,
     enhancement  |-> <<"_suggest_specificity", "_suggest_examples",
                        "_suggest_tone_match">>]

\* the _suggest_* methods the class defines
DefinedStrategies ==
    {"_suggest_continuation", "_suggest_elaboration", "_suggest_transition",
     "_suggest_completion", "_suggest_closing", "_suggest_call_to_action"}

\* self.<name>: a name the class defines resolves, any other raises AttributeError
Resolves(name) == name \in DefinedStrategies

\* method(current_text, context, patterns, search_results)
CallStrategy(name, current_text, patterns, results) ==
    CASE name = "_suggest_continuation" -> SuggestContinuation(current_text, patterns, results)
      [] name = "_suggest_elaboration" -> SuggestElaboration(current_text, patterns, results)
      [] name = "_suggest_transition" -> SuggestTransition(current_text, patterns, results)
      [] name = "_suggest_completion" -> SuggestCompletion(current_text, patterns, results)
      [] name = "_suggest_closing" -> SuggestClosing(current_text, patterns, results)
      [] name = "_suggest_call_to_action" -> SuggestCallToAction(current_text, patterns, results)

MaxSuggestions == 3

\* a return statement without the slice
AllRanked(ranked_suggestions) == ranked_suggestions

\* ranked_suggestions[:3]
TopSuggestions(ranked_suggestions) == Take(ranked_suggestions, MaxSuggestions)

\* self.suggestion_patterns.get(suggestion_type, self.suggestion_patterns['continuation'])
MethodsIn(self_suggestion_patterns, suggestion_type) ==
    IF suggestion_type \in DOMAIN self_suggestion_patterns
    THEN self_suggestion_patterns[suggestion_type]
    ELSE self_suggestion_patterns["continuation"]

SuggestionMethods(suggestion_type) == MethodsIn(suggestion_patterns, suggestion_type)

\* generate_suggestions on an instance whose dispatch table is
\* self_suggestion_patterns.  `topics` is the order list(set(keywords)) came
\* out in.  The result records the outcome (the list returned, or the
\* exception), the proposals of the strategies before ranking and the steps
\* that ran.
GenerateSuggestionsOn(self_suggestion_patterns, current_text, context, search_results, suggestion_type, topics) ==
    IF search_results = <<>>
    THEN [status |-> "returned",
          suggestions |-> GenerateFallbackSuggestions(current_text, context),
          proposals |-> <<>>,
          ran |-> {"fallback"}]
    ELSE LET text_analysis == AnalyzeCurrentText(current_text, context, topics)
             patterns == ExtractWritingPatterns(search_results, text_analysis)
             methods == MethodsIn(self_suggestion_patterns, suggestion_type)
             suggestions ==
                Flatten([m \in 1..Len(methods) |->
                            CallStrategy(methods[m], current_text, patterns, search_results)])
         IN  IF \A m \in 1..Len(methods) : Resolves(methods[m])
             THEN [status |-> "returned",
                   suggestions |-> TopSuggestions(RankSuggestions(suggestions,
                                                                  text_analysis)),
                   proposals |-> suggestions,
                   ran |-> {"analysis", "patterns"} \cup {methods[m] : m \in 1..Len(methods)}]
             ELSE [status |-> "raised",
                   suggestions |-> <<>>,
                   proposals |-> <<>>,
                   ran |-> {"analysis", "patterns"}]

\* generate_suggestions on the instance __init__ builds
GenerateSuggestions(current_text, context, search_results, suggestion_type, topics) ==
    GenerateSuggestionsOn(suggestion_patterns, current_text, context, search_results,
                          suggestion_type, topics)

\* ContextSuggestionEngine(): __init__ evaluates every self._suggest_* of the
\* table; the instance exists only if all of them resolve
ConstructEngine ==
    IF \A c \in DOMAIN suggestion_patterns :
            \A m \in 1..Len(suggestion_patterns[c]) : Resolves(suggestion_patterns[c][m])
    THEN "ready"
    ELSE "init_error"

(***************************************************************************)
(* HybridSearchEngine: the composite score.                                *)
(*                                                                         *)
(* A candidate is the dict search_similar returns, flattened:              *)
(*   id, score          the raw similarity, in thousandths                 *)
(*   text               payload.get('text', '') as tokens                  *)
(*   title_len          len(payload.get('title', ''))                      *)
(*   source             payload.get('source', '')                          *)
(*   timestamp          payload.get('timestamp'): Absent (None or ''),     *)
(*                      Unparsable, or Aged(d) for a date d whole days old *)
(*   content_type       payload.get('content_type', '')                    *)
(* An absent key reads as the default of its .get, here Missing.           *)
(* Factors are in thousandths, weights in thousandths, scores in 1/ONE.    *)
(***************************************************************************)
Missing == ""

Absent == [kind |-> "absent", age_days |-> 0]

Unparsable == [kind |-> "unparsable", age_days |-> 0]

Aged(d) == [kind |-> "date", age_days |-> d]

ONE == 1000000000

\* one thousandth of a factor times one thousandth of a weight, in 1/ONE
FactorUnit == 1000

\* self.weights
weights ==
    [vector_similarity |-> 600, temporal_relevance |-> 150, source_preference |-> 100,
     content_type_match |-> 100, engagement_score |-> 50]

(***************************************************************************)
(* payload['timestamp'] as the scorer finds it: [kind, hour].  The kinds    *)
(*   "missing"   no such key, or None                                      *)
(*   "empty"     the empty string                                          *)
(*   "iso"       an ISO string without offset, e.g. 2024-05-01T10:00:00    *)
(*   "iso_utc"   an ISO string ending in Z or in an offset                 *)
(*   "datetime"  a datetime object                                         *)
(*   "garbage"   a string datetime.fromisoformat refuses                   *)
(*   "number"    a number other than 0 (an epoch), which has no            *)
(*               replace(tzinfo=...)                                       *)
(* hour is the wall-clock time the value shows, in hours; the clock        *)
(* datetime.now() is in hours too.                                         *)
(***************************************************************************)
\* lines 115-127 of _calculate_temporal_score: the value is found and parsed,
\* its offset is dropped, and the age is the whole days of now - content_date
\* (timedelta.days rounds down)
ParseTimestamp(value, now) ==
    IF value.kind \in {"missing", "empty"} THEN Absent
    ELSE IF value.kind \in {"garbage", "number"} THEN Unparsable
    ELSE Aged((now - value.hour) \div 24)

\* a step function whose steps begin one day early
TemporalStepsEarly(cand) ==
    IF cand.timestamp.kind = "absent" THEN 500
    ELSE IF cand.timestamp.kind = "unparsable" THEN 500
    ELSE IF cand.timestamp.age_days < 7 THEN 1000
    ELSE IF cand.timestamp.age_days < 30 THEN 800
    ELSE IF cand.timestamp.age_days < 90 THEN 600
    ELSE IF cand.timestamp.age_days < 365 THEN 400
    ELSE 200

\* _calculate_temporal_score
CalculateTemporalScore(cand) ==
    IF cand.timestamp.kind = "absent" THEN 500
    ELSE IF cand.timestamp.kind = "unparsable" THEN 500
    ELSE IF cand.timestamp.age_days <= 7 THEN 1000
    ELSE IF cand.timestamp.age_days <= 30 THEN 800
    ELSE IF cand.timestamp.age_days <= 90 THEN 600
    ELSE IF cand.timestamp.age_days <= 365 THEN 400
    ELSE 200

\* str.lower() of a source tag
LowerSource(source) ==
    CASE source = "Gmail" -> "gmail"
      [] source = "Notion" -> "notion"
      [] OTHER -> source

\* a source score that looks for the knowledge terms first
SourceScoreKnowledgeFirst(cand, context) ==
    LET source == LowerSource(cand.source)
        context_lower == Lower(context)
    IN  IF Contains(context_lower, <<"knowledge">>)
           \/ Contains(context_lower, <<"research">>)
        THEN (IF source = "notion" THEN 1000 ELSE 700)
        ELSE IF Contains(context_lower, <<"job">>) \/ Contains(context_lower, <<"career">>)
        THEN (IF source = "gmail" THEN 1000 ELSE 700)
        ELSE 800

\* _calculate_source_score
CalculateSourceScore(cand, context) ==
    LET source == LowerSource(cand.source)
        context_lower == Lower(context)
    IN  IF Contains(context_lower, <<"job">>) \/ Contains(context_lower, <<"career">>)
        THEN (IF source = "gmail" THEN 1000 ELSE 700)
        ELSE IF Contains(context_lower, <<"knowledge">>)
                \/ Contains(context_lower, <<"research">>)
        THEN (IF source = "notion" THEN 1000 ELSE 700)
        ELSE 800

\* the taxonomy of _calculate_content_type_score: content type -> related hint terms
type_relationships ==
    [job_related |-> {"career", "work", "professional"},
     technical |-> {"development", "programming", "code"},
     personal |-> {"communication", "conversation"},
     newsletter |-> {"information", "updates", "news"}]

\* _calculate_content_type_score.  A hint is one lower-case word, or Missing
\* for None and for ''.
CalculateContentTypeScore(cand, content_type_hint) ==
    LET content_type == cand.content_type
    IN  IF content_type_hint = Missing THEN 500
        ELSE IF content_type = content_type_hint THEN 1000
        ELSE IF content_type \in DOMAIN type_relationships
                /\ content_type_hint \in type_relationships[content_type]
        THEN 800
        ELSE 300

\* _calculate_engagement_score, doubled: length_score + title_score, each in
\* thousandths (the code halves the sum; the halving is applied to the weight)
EngagementTwice(cand) ==
    LET content_length == CharLen(cand.text)
        length_score == Min2(content_length, 1000)
        title_score == IF cand.title_len > 10 THEN 800 ELSE 500
    IN  length_score + title_score

\* _calculate_hybrid_score: the weighted total, with the weights the instance
\* holds; the engagement weight enters halved (see EngagementTwice)
HybridScoreWith(self_weights, cand, query, context, content_type_hint) ==
    FactorUnit *
      ( cand.score * self_weights.vector_similarity
      + CalculateTemporalScore(cand) * self_weights.temporal_relevance
      + CalculateSourceScore(cand, context) * self_weights.source_preference
      + CalculateContentTypeScore(cand, content_type_hint) * self_weights.content_type_match
      + EngagementTwice(cand) * (self_weights.engagement_score \div 2) )

CalculateHybridScore(cand, query, context, content_type_hint) ==
    HybridScoreWith(weights, cand, query, context, content_type_hint)

(***************************************************************************)
(* ContextAwareScoring.                                                    *)
(***************************************************************************)
\* score * (tenths / 10); every score the model reaches is a multiple of 10
Scale(score, tenths) == (score \div 10) * tenths

\* an adjustment that leaves every score as it is
AdjustNothing(score, query) == score

\* adjust_for_query_specificity
AdjustForQuerySpecificity(score, query) ==
    LET word_count == Len(SplitWs(query))
    IN  IF word_count = 1 THEN Scale(score, 9)
        ELSE IF word_count >= 5 THEN Scale(score, 11)
        ELSE score

\* what boost_exact_matches does: it returns a value or raises ZeroDivisionError
Returns(v) == [raised |-> FALSE, value |-> v]

Raises == [raised |-> TRUE, value |-> 0]

\* boost_exact_matches
BoostExactMatches(score, query, content) ==
    LET query_lower == Lower(query)
        content_lower == Lower(content)
        query_words == SplitWs(query_lower)
        content_words == SplitWs(content_lower)
        matches == Cardinality({i \in 1..Len(query_words) :
                                    IsIn(query_words[i], content_words)})
    IN  IF Contains(content_lower, query_lower) THEN Returns(Min2(Scale(score, 12), ONE))
        \* matches / len(query_words)
        ELSE IF Len(query_words) = 0 THEN Raises
        \* match_ratio > 0.7
        ELSE IF matches * 10 > 7 * Len(query_words) THEN Returns(Scale(score, 11))
        ELSE Returns(score)

\* a loop whose test is `current_count <= max_per_source`
RECURSIVE KeptOverCap(_, _, _)
KeptOverCap(results, max_per_source, n) ==
    IF n = 0 THEN <<>>
    ELSE LET before == KeptOverCap(results, max_per_source, n - 1)
             current_count == Cardinality({k \in 1..Len(before) :
                                    results[before[k]].source = results[n].source})
         IN  IF current_count <= max_per_source THEN Append(before, n) ELSE before

\* a loop that walks the list from its end
KeptFromEnd(results, max_per_source, n) ==
    LET After(i) == Cardinality({j \in (i + 1)..n :
                                    results[j].source = results[i].source})
        Keep(i) == After(i) < max_per_source
    IN  SelectSeq([i \in 1..n |-> i] \o <<>>, Keep)

\* diversify_sources: the indices of `results` the loop keeps, among the
\* first n entries
RECURSIVE KeptAmong(_, _, _)
KeptAmong(results, max_per_source, n) ==
    IF n = 0 THEN <<>>
    ELSE LET before == KeptAmong(results, max_per_source, n - 1)
             current_count == Cardinality({k \in 1..Len(before) :
                                    results[before[k]].source = results[n].source})
         IN  IF current_count < max_per_source THEN Append(before, n) ELSE before

\* diversify_sources
DiversifySources(results, max_per_source) ==
    LET kept == KeptAmong(results, max_per_source, Len(results))
    IN  [k \in 1..Len(kept) |-> results[kept[k]]] \o <<>>

(***************************************************************************)
(* app/api/suggest.py: the rule-based generators of the /api/suggest       *)
(* handler.  A Suggestion is [text, score] with the score in thousandths.  *)
(***************************************************************************)
Suggestion(text, score) == [text |-> text, score |-> score]

\* str.replace(old, new) for token sequences: leftmost matches, not overlapping
RECURSIVE Replace(_, _, _)
Replace(s, old, new) ==
    IF ~Contains(s, old) THEN s
    ELSE LET i == Find(s, old)
         IN  SubSeq(s, 1, i - 1) \o new \o Replace(Drop(s, i - 1 + Len(old)), old, new)

Refined == <<Blank, "(", "refined", ")">>

\* the table `fallbacks` of _generate_fallback_suggestions
FallbackTexts(user_text, task) ==
    LET continue ==
            << <<"continues", Blank, "with", Blank, "clear", Blank, "purpose", Blank,
                 "and", Blank, "direction", ".">>,
               <<"develops", Blank, "this", Blank, "idea", Blank, "further", Blank,
                 "with", Blank, "specific", Blank, "examples", ".">>,
               <<"builds", Blank, "upon", Blank, "this", Blank, "foundation", Blank,
                 "naturally", ".">> >>
        complete ==
            << <<"requires", Blank, "careful", Blank, "consideration", Blank, "and",
                 Blank, "planning", ".">>,
               <<"represents", Blank, "an", Blank, "important", Blank, "step", Blank,
                 "forward", ".">>,
               <<"deserves", Blank, "our", Blank, "full", Blank, "attention", Blank,
                 "and", Blank, "effort", ".">> >>
        rephrase ==
            << Replace(user_text, <<Blank, "and", Blank>>, <<Blank, "&", Blank>>),
               Replace(user_text, <<Blank, "but", Blank>>, <<Blank, "however", ",", Blank>>),
               user_text \o Refined >>
    IN  CASE task = "continue" -> continue
          [] task = "complete" -> complete
          [] task = "rephrase" -> rephrase
          [] OTHER -> continue

\* _generate_fallback_suggestions
ApiFallbackSuggestions(user_text, task, num_suggestions) ==
    LET fallback_texts == Take(FallbackTexts(user_text, task), num_suggestions)
    IN  [i \in 1..Len(fallback_texts) |-> Suggestion(fallback_texts[i], 300)]

\* the list `candidates` of _generate_continuations: for every word of a
\* segment that is one of the last three words of the user text, the (at
\* most) 14 words that follow it, if there are any and they fit max_length
ContinuationCandidates(user_text, relevant_segments, max_length) ==
    LET user_words == SplitWs(Lower(user_text))
        last_words == LastN(user_words, 3)
        OfSegment(segment) ==
            LET words == SplitWs(Lower(segment))
                Following(i) == JoinSp(SubSeq(words, i + 1, Min2(i + 14, Len(words))))
                Hit(i) == /\ IsIn(words[i], last_words)
                          /\ Following(i) /= <<>>
                          /\ CharLen(Following(i)) <= max_length
                idx == SelectSeq([i \in 1..Len(words) |-> i] \o <<>>, Hit)
            IN  [k \in 1..Len(idx) |-> Following(idx[k])]
    IN  Flatten([g \in 1..Len(relevant_segments) |-> OfSegment(relevant_segments[g])])

\* the arrangements list(set(candidates)) can come out in
UniqueOrders(candidates) ==
    LET cs == {candidates[i] : i \in 1..Len(candidates)}
        k  == Cardinality(cs)
    IN  {u \in [1..k -> cs] : \A i, j \in 1..k : u[i] = u[j] => i = j}

ScoreOf(suggestion) == suggestion.score

\* _generate_continuations, given the arrangement of the unique candidates
GenerateContinuations(user_text, unique_candidates, num_suggestions) ==
    LET user_words == SplitWs(Lower(user_text))
        Overlap(candidate) ==
            Cardinality({w \in {user_words[i] : i \in 1..Len(user_words)} :
                            IsIn(w, SplitWs(Lower(candidate)))})
        scored == [i \in 1..Len(unique_candidates) |->
                      Suggestion(unique_candidates[i],
                                 Min2(900, 400 + 100 * Overlap(unique_candidates[i])))]
        suggestions == Take(SortDesc(scored, ScoreOf), num_suggestions)
        \* the `while` loop: its body ends in `break`, so it adds one fallback at most
        filled == IF Len(suggestions) < num_suggestions
                  THEN suggestions \o ApiFallbackSuggestions(user_text, "continue", 1)
                  ELSE suggestions
    IN  Take(filled, num_suggestions)

\* _generate_completions
GenerateCompletions(num_suggestions) ==
    LET completions ==
            Take(<< <<"that", Blank, "aligns", Blank, "with", Blank, "your", Blank,
                      "previous", Blank, "insights", ".">>,
                    <<"which", Blank, "builds", Blank, "on", Blank, "your", Blank,
                      "established", Blank, "expertise", ".">>,
                    <<"reflecting", Blank, "your", Blank, "typical", Blank,
                      "analytical", Blank, "approach", ".">> >>, num_suggestions)
    IN  [i \in 1..Len(completions) |-> Suggestion(completions[i], 700 - (i - 1) * 100)]

\* _generate_rephrasings.  `"and" in user_text` is a substring test; no word
\* of the input texts contains "and", "but" or "because" inside a longer word
GenerateRephrasings(user_text, num_suggestions) ==
    LET found ==
            (IF Contains(user_text, <<"and">>)
             THEN <<Replace(user_text, <<Blank, "and", Blank>>, <<Blank, "&", Blank>>)>>
             ELSE <<>>)
            \o (IF Contains(user_text, <<"but">>)
                THEN <<Replace(user_text, <<Blank, "but", Blank>>,
                               <<Blank, "however", ",", Blank>>)>>
                ELSE <<>>)
            \o (IF Contains(user_text, <<"because">>)
                THEN <<Replace(user_text, <<Blank, "because", Blank>>,
                               <<Blank, "since", Blank>>)>>
                ELSE <<>>)
        rephrasings == Take(IF found = <<>> THEN <<user_text \o Refined>> ELSE found,
                            num_suggestions)
    IN  [i \in 1..Len(rephrasings) |-> Suggestion(rephrasings[i], 600 - (i - 1) * 100)]

MaxSegments == 5

\* the non-empty chunk texts of the top five results
RelevantSegments(search_results) ==
    LET top == Take(search_results, MaxSegments)
        texts == [i \in 1..Len(top) |-> top[i].text]
    IN  SeqFilter(texts, IsNonEmpty)

\* _generate_suggestions_from_chunks, given the arrangement list(set(...)) took
SuggestionsFromChunks(user_text, search_results, task, num_suggestions, unique_candidates) ==
    IF search_results = <<>>
    THEN ApiFallbackSuggestions(user_text, task, num_suggestions)
    ELSE CASE task = "complete" -> GenerateCompletions(num_suggestions)
           [] task = "rephrase" -> GenerateRephrasings(user_text, num_suggestions)
           [] OTHER -> GenerateContinuations(user_text, unique_candidates, num_suggestions)

MaxSources == 5

\* what a call of the handler comes to: an HTTP status and, for 200, the
\* SuggestResponse (PerformanceStats is filled in on that path alone)
Ok200(suggestions, search_results) ==
    [status |-> 200,
     suggestions |-> suggestions,
     n_sources |-> Len(Take(search_results, MaxSources)),
     has_stats |-> TRUE,
     chunks_retrieved |-> Len(search_results),
     chunks_processed |-> Len(suggestions),
     ran |-> {"embedding", "search", "generation"}]

\* an error answer; `ran` holds the steps of the handler that were called
HttpError(code, ran) ==
    [status |-> code, suggestions |-> <<>>, n_sources |-> 0, has_stats |-> FALSE,
     chunks_retrieved |-> 0, chunks_processed |-> 0, ran |-> ran]

\* the `except Exception` clause of suggest: whatever was raised inside the
\* try block, the HTTPException(503) included, leaves as HTTPException(500)
ExceptClause(raised_status, ran) == HttpError(500, ran)

\* suggest(request).  services_up: the module-level initialisation succeeded;
\* embedding_ok, search_ok: the two upstream calls return rather than raise.
Suggest(request, services_up, embedding_ok, search_ok, search_results, unique_candidates) ==
    IF ~services_up THEN ExceptClause(503, {})
    ELSE IF ~embedding_ok THEN ExceptClause(500, {"embedding"})
    ELSE IF ~search_ok THEN ExceptClause(500, {"embedding", "search"})
    ELSE Ok200(SuggestionsFromChunks(request.text, search_results, request.task,
                                     request.num_suggestions, unique_candidates),
               search_results)

\* f"suggest_{int(time.time() * 1000)}" for a clock read in microseconds:
\* the whole milliseconds since the epoch behind a fixed prefix
TraceId(micros) == [prefix |-> "suggest_", ms |-> micros \div 1000]

\* the constraints of the SuggestRequest fields: text is any str
Validates(request) ==
    /\ request.num_suggestions >= 1 /\ request.num_suggestions <= 10
    /\ request.max_length >= 10 /\ request.max_length <= 500

\* POST /api/suggest: a body the request model refuses is answered 422 and
\* the handler is not entered
PostSuggest(request, services_up, embedding_ok, search_ok, search_results, unique_candidates) ==
    IF ~Validates(request) THEN HttpError(422, {})
    ELSE Suggest(request, services_up, embedding_ok, search_ok, search_results,
                 unique_candidates)

(***************************************************************************)
(* app/services/llm_service.py: LLMService.generate_suggestions.  What one *)
(* call of the completion API comes to is one of                           *)
(*   "text"       status 200 and a non-empty cleaned text                  *)
(*   "empty"      status 200 and a cleaned text that is empty              *)
(*   "status"     a status other than 200                                  *)
(*   "exception"  session.post, the timeout or the decoding raised         *)
(* A suggestion is [text, score, call]: score in thousandths, call the     *)
(* index i of the loop that produced it (-1 for a fallback).               *)
(***************************************************************************)
CallOutcomes == {"text", "empty", "status", "exception"}

Generated == <<"generated">>

\* the table fallback_suggestions of LLMService._generate_fallback_suggestions
LlmFallbackTexts(user_text, task) ==
    LET continue ==
            << <<"continues", Blank, "with", Blank, "clear", Blank, "purpose", Blank,
                 "and", Blank, "direction">>,
               <<"develops", Blank, "this", Blank, "idea", Blank, "further", Blank,
                 "with", Blank, "specific", Blank, "examples">>,
               <<"builds", Blank, "upon", Blank, "this", Blank, "foundation", Blank,
                 "naturally">> >>
        complete ==
            << <<"requires", Blank, "careful", Blank, "consideration", Blank, "and",
                 Blank, "planning">>,
               <<"represents", Blank, "an", Blank, "important", Blank, "step", Blank,
                 "forward">>,
               <<"deserves", Blank, "our", Blank, "full", Blank, "attention", Blank,
                 "and", Blank, "effort">> >>
        rephrase ==
            << Replace(user_text, <<Blank, "and", Blank>>, <<Blank, "&", Blank>>),
               Replace(user_text, <<Blank, "but", Blank>>, <<Blank, "however", ",", Blank>>),
               Replace(user_text, <<Blank, "because", Blank>>, <<Blank, "since", Blank>>) >>
    IN  CASE task = "continue" -> continue
          [] task = "complete" -> complete
          [] task = "rephrase" -> rephrase
          [] OTHER -> continue

\* LLMService._generate_fallback_suggestions
LlmFallbackSuggestions(user_text, task, num_suggestions) ==
    LET fallbacks == Take(LlmFallbackTexts(user_text, task), num_suggestions)
    IN  [i \in 1..Len(fallbacks) |-> [text |-> fallbacks[i], score |-> 200, call |-> -1]]
        \o <<>>

\* a loop whose try block does not catch what the call raises
AfterCallUncaught(suggestions, i, outcome) ==
    IF outcome = "text"
    THEN [raised |-> FALSE,
          suggestions |-> Append(suggestions,
                                 [text |-> Generated, score |-> 900 - i * 100, call |-> i])]
    ELSE IF outcome = "exception"
    THEN [raised |-> TRUE, suggestions |-> suggestions]
    ELSE [raised |-> FALSE, suggestions |-> suggestions]

\* the body of the loop for index i (0-based): a text is appended with score
\* 0.9 - i * 0.1; a status other than 200 is logged; an exception is caught
\* and the loop continues
AfterCall(suggestions, i, outcome) ==
    IF outcome = "text"
    THEN [raised |-> FALSE,
          suggestions |-> Append(suggestions,
                                 [text |-> Generated, score |-> 900 - i * 100, call |-> i])]
    ELSE [raised |-> FALSE, suggestions |-> suggestions]

\* a return that hands back whatever the loop collected
WithoutFallbacks(suggestions, user_text, task, num_suggestions) == suggestions

\* the end of generate_suggestions: the fallbacks if the loop collected nothing
OrFallbacks(suggestions, user_text, task, num_suggestions) ==
    IF suggestions = <<>>
    THEN LlmFallbackSuggestions(user_text, task, num_suggestions)
    ELSE suggestions

(***************************************************************************)
(* HybridSearchEngine.search: the candidates the index returned are        *)
(* scored, sorted by final score, filtered by source and cut to top_k.     *)
(* A SearchResult is [doc_id, content, source, vector_score, final_score]. *)
(***************************************************************************)
\* SearchResult(doc_id=..., content=..., source=..., vector_score=..., final_score=...)
SearchResult(self_weights, result, query, context, content_type_hint) ==
    [doc_id |-> result.id,
     content |-> result.text,
     source |-> result.source,
     vector_score |-> result.score,
     final_score |-> HybridScoreWith(self_weights, result, query, context,
                                     content_type_hint)]

FinalScoreOf(r) == r.final_score

\* a search that lets every source through
KeepEverySource(scored_results, source_filter) == scored_results

\* if source_filter: [r for r in scored_results if r.source == source_filter]
FilterBySource(scored_results, source_filter) ==
    IF source_filter = Missing THEN scored_results
    ELSE LET matches(r) == r.source = source_filter
         IN  SeqFilter(scored_results, matches)

\* a search that filters and cuts the candidates in the order of the index
RankUnsorted(self_weights, vector_results, query, context, top_k, source_filter, content_type_hint) ==
    IF vector_results = <<>> THEN <<>>
    ELSE LET scored_results ==
                 [k \in 1..Len(vector_results) |->
                     SearchResult(self_weights, vector_results[k], query, context,
                                  content_type_hint)]
                 \o <<>>
         IN  Take(FilterBySource(scored_results, source_filter), top_k)

\* the part of search that follows the retrieval
RankResults(self_weights, vector_results, query, context, top_k, source_filter, content_type_hint) ==
    IF vector_results = <<>> THEN <<>>
    ELSE LET scored_results ==
                 [k \in 1..Len(vector_results) |->
                     SearchResult(self_weights, vector_results[k], query, context,
                                  content_type_hint)]
                 \o <<>>
             sorted == SortDesc(scored_results, FinalScoreOf)
         IN  Take(FilterBySource(sorted, source_filter), top_k)

(***************************************************************************)
(* The fields of the two engine instances while requests are served:       *)
(* self.weights and self.suggestion_patterns are assigned in __init__ and  *)
(* nowhere else.                                                           *)
(***************************************************************************)
\* a search that keeps, in self.weights, a preference learnt from the request
WeightsTunedToRequest(self_weights, request) ==
    IF request.source_filter = Missing THEN self_weights
    ELSE [self_weights EXCEPT !.source_preference = 300, !.vector_similarity = 400]

\* self.weights after a step of search: no statement of search assigns it
WeightsAfterSearch(self_weights, request) == self_weights

(***************************************************************************)
(* app/services/vector_service.py: VectorService.store_vectors.  The index *)
(* is a function from the ids stored to [vector, payload].  The result of  *)
(* a call is "False", "True", "ValueError" (the length check) or "error"   *)
(* (what building the points or client.upsert raised, raised again).       *)
(***************************************************************************)
\* zip(ids, vectors, payloads) upserted into the index: a later point with
\* the same id replaces an earlier one
Upserted(index, vectors, ids, payloads) ==
    LET n == Min2(Len(ids), Min2(Len(vectors), Len(payloads)))
        new == {ids[k] : k \in 1..n}
        last(id) == CHOOSE k \in 1..n :
                        /\ ids[k] = id
                        /\ \A j \in (k + 1)..n : ids[j] /= id
    IN  [id \in (DOMAIN index) \cup new |->
            IF id \in new
            THEN [vector |-> vectors[last(id)], payload |-> payloads[last(id)]]
            ELSE index[id]]

\* store_vectors; upsert is what client.upsert does: "ok", "failed" (it
\* raised and wrote nothing) or "failed_late" (it raised after the write)
StoreVectors(index, vectors, ids, payloads, upsert) ==
    IF vectors = <<>> \/ ids = <<>> \/ payloads = <<>>
    THEN [result |-> "False", index |-> index]
    ELSE IF Len(vectors) /= Len(ids) \/ Len(vectors) /= Len(payloads)
    THEN [result |-> "ValueError", index |-> index]
    ELSE IF upsert = "ok"
    THEN [result |-> "True", index |-> Upserted(index, vectors, ids, payloads)]
    ELSE IF upsert = "failed_late"
    THEN [result |-> "error", index |-> Upserted(index, vectors, ids, payloads)]
    ELSE [result |-> "error", index |-> index]

(***************************************************************************)
(* Inputs of the suggestion engine.                                        *)
(***************************************************************************)
\* current texts: empty; unfinished; finished and polite; a single word
Texts ==
    { <<>>,
      <<"we", Blank, "will">>,
      <<"Please", Blank, "reply", ".">>,
      <<"Thanks">> }

\* free-text contexts: none (general) and a job search (professional)
Contexts == { <<>>, <<"job", Blank, "search">> }

\* the request categories, and one the table does not hold
Categories == {"continuation", "completion", "enhancement", "summary"}

\* candidate contents: "", "ok.", "Please reply", "Thanks. please reply",
\* "we will reply soon. Bye",
\* "However, we will reply! For example today. Let me know" and
\* "please send me the report today. we will reply soon and please let me know"
Contents ==
    { <<"please", Blank, "send", Blank, "me", Blank, "the", Blank, "report", Blank,
        "today", ".", Blank, "we", Blank, "will", Blank, "reply", Blank, "soon",
        Blank, "and", Blank, "please", Blank, "let", Blank, "me", Blank, "know">>,
      <<>>,
      <<"ok", ".">>,
      <<"Please", Blank, "reply">>,
      <<"Thanks", ".", Blank, "please", Blank, "reply">>,
      <<"we", Blank, "will", Blank, "reply", Blank, "soon", ".", Blank, "Bye">>,
      <<"However", ",", Blank, "we", Blank, "will", Blank, "reply", "!", Blank,
        "For", Blank, "example", Blank, "today", ".", Blank, "Let", Blank, "me",
        Blank, "know">> }

\* a curated candidate as the engine reads it (SearchResult.content)
EngineResults == {[content |-> c] : c \in Contents}

\* the candidate lists of at most MaxResults entries
RECURSIVE SeqsUpTo(_, _)
SeqsUpTo(S, n) ==
    IF n = 0 THEN {<<>>}
    ELSE LET shorter == SeqsUpTo(S, n - 1)
         IN  shorter \cup {Append(q, e) : q \in {r \in shorter : Len(r) = n - 1}, e \in S}

(***************************************************************************)
(* Inputs of the scorer.                                                   *)
(***************************************************************************)
\* candidate texts: absent or ""; "Please reply"; "we will reply to you today";
\* "you will reply to we" (the words of a query, not in its order)
ScoreTexts ==
    { <<>>,
      <<"Please", Blank, "reply">>,
      <<"we", Blank, "will", Blank, "reply", Blank, "to", Blank, "you", Blank, "today">>,
      <<"you", Blank, "will", Blank, "reply", Blank, "to", Blank, "we">> }

ScoreCandidates ==
    [id : {"d1"},
     score : {0, 1000},
     text : ScoreTexts,
     title_len : {0, 20},
     source : {"gmail", Missing},
     timestamp : {Absent, Aged(3), Aged(400)},
     content_type : {"job_related", Missing}]

\* queries: "", two blanks, one word, two words, four words, five words
Queries ==
    { <<>>,
      <<Blank, Blank>>,
      <<"Reply">>,
      <<"we", Blank, "will">>,
      <<"we", Blank, "will", Blank, "reply", Blank, "to">>,
      <<"we", Blank, "will", Blank, "reply", Blank, "to", Blank, "you">> }

ScoreContexts == { <<>>, <<"job">> }

Hints == {Missing, "job_related", "career"}

(***************************************************************************)
(* app/services/integration_service.py: IntegrationService.sync_documents. *)
(* Times are whole numbers; 0 is "no state file" (last_sync_time None).    *)
(***************************************************************************)
\* _get_last_sync_time, for a force_full_sync flag: None for a full sync or
\* without state file, else the time in the file
LastSyncTimeFor(force_full_sync, file) == IF force_full_sync THEN 0 ELSE file

\* process_all_documents(last_sync_time): the pages edited after
\* last_sync_time (all pages when it is None), in the order of the database
DocumentsSince(edited, last_sync_time) ==
    LET ids == [i \in 1..Cardinality(DOMAIN edited) |-> i] \o <<>>
        Due(d) == edited[d] > last_sync_time
    IN  SelectSeq(ids, Due)

\* what comes of one document in the loop of sync_documents:
\*   "stored"          chunks made, embedded and stored
\*   "no_content"      the document has no content: process_document returns []
\*   "process_failed"  process_document raised inside: its except clause
\*                     returns [] as well
\*   "embed_raised"    generate_embeddings raised
\*   "store_raised"    store_vectors raised
DocumentOutcomes ==
    {"stored", "no_content", "process_failed", "embed_raised", "store_raised"}

(***************************************************************************)
(* Inputs of the sync: two documents edited at time 1 or 2, a state file   *)
(* that is absent or holds time 1, a clock that starts at 3, and at most   *)
(* MaxSyncs runs.                                                          *)
(***************************************************************************)
MaxSyncs == 2

SyncDocs == {1, 2}

(***************************************************************************)
(* Inputs of the trace ids: two requests, and a clock that moves on by     *)
(* 400 microseconds at most MaxTicks times.                                *)
(***************************************************************************)
MaxTicks == 6

TraceRequests == {1, 2}

(***************************************************************************)
(* Inputs of pattern extraction: lists of up to MaxCandidates candidates,  *)
(* one more than the extraction analyses; the first two contents at the    *)
(* first five places, any of the three beyond:                             *)
(*   "please send me the report today. we will reply soon and please let   *)
(*    me know",                                                            *)
(*   "However, we will reply! For example today. Let me know" and          *)
(*   "we will reply soon. Bye"                                             *)
(* for the current texts "" and "Please reply."                            *)
(***************************************************************************)
MaxCandidates == 6

PatternContents ==
    { <<"please", Blank, "send", Blank, "me", Blank, "the", Blank, "report", Blank,
        "today", ".", Blank, "we", Blank, "will", Blank, "reply", Blank, "soon",
        Blank, "and", Blank, "please", Blank, "let", Blank, "me", Blank, "know">>,
      <<"However", ",", Blank, "we", Blank, "will", Blank, "reply", "!", Blank,
        "For", Blank, "example", Blank, "today", ".", Blank, "Let", Blank, "me",
        Blank, "know">>,
      <<"we", Blank, "will", Blank, "reply", Blank, "soon", ".", Blank, "Bye">> }

PatternResults == {[content |-> c] : c \in PatternContents}

PatternLists ==
    {s \in SeqsUpTo(PatternResults, MaxCandidates) \ {<<>>} :
        \A i \in 1..Min2(5, Len(s)) : Len(s[i].content) > 10}

PatternTexts == { <<>>, <<"Please", Blank, "reply", ".">> }

(***************************************************************************)
(* Inputs of the temporal and the source factor: timestamps written so     *)
(* that the ages fall on both sides of every step, read at two times of    *)
(* the clock one hour apart.                                               *)
(***************************************************************************)
ClockBase == 9000

Clocks == {ClockBase, ClockBase + 1}

\* hours between the writing and ClockBase: 30 h in the future, now, and the
\* last hour of day 7, 30, 90, 365 with the first hour of the day after
WrittenBefore == {-30, 0, 191, 192, 743, 744, 2183, 2184, 8783, 8784}

PayloadTimestamps ==
    {[kind |-> k, hour |-> 0] : k \in {"missing", "empty", "garbage", "number"}}
    \cup {[kind |-> k, hour |-> ClockBase - h] :
            k \in {"iso", "iso_utc", "datetime"}, h \in WrittenBefore}

FactorSources == {"gmail", "Gmail", "notion", "slack", Missing}

\* "", "job search", "Career", "research notes", "Knowledge", "job research",
\* "plain words"
FactorContexts ==
    { <<>>,
      <<"job", Blank, "search">>,
      <<"Career">>,
      <<"research", Blank, "notes">>,
      <<"Knowledge">>,
      <<"job", Blank, "research">>,
      <<"plain", Blank, "words">> }

(***************************************************************************)
(* Inputs of diversify_sources: lists of at most MaxList results, caps of  *)
(* at most MaxCap.                                                         *)
(***************************************************************************)
MaxList == 4

MaxCap == 2

CuratorResults == [source : {"gmail", "notion"}, final_score : {1, 2, 3}]

(***************************************************************************)
(* Inputs of the /api/suggest handler: request bodies, one of them with a  *)
(* num_suggestions the request model refuses, and result lists of at most  *)
(* MaxChunks chunks.                                                       *)
(***************************************************************************)
\* texts: ""; " "; "we will reply"; "now and then"
ApiTexts ==
    { <<>>,
      <<Blank>>,
      <<"we", Blank, "will", Blank, "reply">>,
      <<"now", Blank, "and", Blank, "then">> }

\* the three tasks, and one the handler does not know
Tasks == {"continue", "complete", "rephrase", "summarize"}

NumSuggestions == {0, 1, 2, 4}

MaxLengths == {10, 100}

Requests ==
    [text : ApiTexts, task : Tasks, num_suggestions : NumSuggestions,
     max_length : MaxLengths]

\* chunk texts: ""; "we will reply soon"; "will you"
Chunks ==
    {[text |-> t] :
        t \in { <<>>,
                <<"we", Blank, "will", Blank, "reply", Blank, "soon">>,
                <<"will", Blank, "you">> }}

MaxChunks == 2

(***************************************************************************)
(* Inputs of LLMService.generate_suggestions: at most MaxCalls suggestions *)
(* are asked for.                                                          *)
(***************************************************************************)
MaxCalls == 3

\* user texts: ""; "now and then"
LlmTexts == { <<>>, <<"now", Blank, "and", Blank, "then">> }

LlmRequests ==
    [user_text : LlmTexts, task : Tasks, num_suggestions : 0..MaxCalls,
     has_chunks : BOOLEAN]

(***************************************************************************)
(* Inputs of HybridSearchEngine.search: top_k of at most MaxTopK, and an   *)
(* index that returns at most MaxHits candidates, never more than the      *)
(* limit top_k * 3 it is given, each stored point at most once.            *)
(***************************************************************************)
MaxTopK == 4

MaxHits == 4

DocIds == <<"d1", "d2", "d3", "d4", "d5">>

\* what the index stores about a point, its id apart
StoredPoints ==
    [score : {300, 900},
     text : {<<"Please", Blank, "reply">>},
     title_len : {20},
     source : {"gmail", "notion", Missing},
     timestamp : {Aged(3)},
     content_type : {Missing}]

WithId(point, id) ==
    [id |-> id, score |-> point.score, text |-> point.text, title_len |-> point.title_len,
     source |-> point.source, timestamp |-> point.timestamp,
     content_type |-> point.content_type]

\* the lists search_similar can return for the limit it is given
IndexAnswers(limit) ==
    {[k \in 1..Len(points) |-> WithId(points[k], DocIds[k])] \o <<>> :
        points \in SeqsUpTo(StoredPoints, Min2(limit, MaxHits))}

SearchRequests ==
    [query : {<<"Reply">>}, context : {<<>>, <<"job">>}, top_k : 0..MaxTopK,
     source_filter : {Missing, "gmail"}, content_type_hint : {Missing}]

(***************************************************************************)
(* Two requests served at the same time by one HybridSearchEngine and one  *)
(* ContextSuggestionEngine: each is a search whose results are handed to   *)
(* generate_suggestions.                                                   *)
(***************************************************************************)
RequestIds == {1, 2}

ConcurrentPoint(id, text, source, score) ==
    [id |-> id, score |-> score, text |-> text, title_len |-> 20, source |-> source,
     timestamp |-> Aged(3), content_type |-> Missing]

\* what the index answers: "Thanks. please reply" and "we will reply soon. Bye",
\* the one or the other nearer to the query
ConcurrentHits ==
    { << ConcurrentPoint("d1", <<"Thanks", ".", Blank, "please", Blank, "reply">>,
                         "gmail", 900),
         ConcurrentPoint("d2", <<"we", Blank, "will", Blank, "reply", Blank, "soon", ".",
                                 Blank, "Bye">>, "notion", 300) >>,
      << ConcurrentPoint("d1", <<"Thanks", ".", Blank, "please", Blank, "reply">>,
                         "notion", 300),
         ConcurrentPoint("d2", <<"we", Blank, "will", Blank, "reply", Blank, "soon", ".",
                                 Blank, "Bye">>, "gmail", 900) >> }

ConcurrentRequests ==
    {[query |-> q, context |-> c, top_k |-> 2, source_filter |-> f, hits |-> h,
      suggestion_type |-> st, topics |-> tp] :
        q \in {<<"Please", Blank, "reply", ".">>}, c \in Contexts,
        f \in {Missing, "gmail"}, h \in ConcurrentHits,
        st \in {"completion", "enhancement"},
        tp \in ExtractKeyTopics(<<"Please", Blank, "reply", ".">>)}

(***************************************************************************)
(* Inputs of VectorService.store_vectors: lists of at most MaxBatch        *)
(* entries.                                                                *)
(***************************************************************************)
MaxBatch == 2

PointIds == {"id_a", "id_b"}

Vectors == {"vec_1", "vec_2"}

Payloads == {"payload_1"}

UpsertOutcomes == {"ok", "failed", "failed_late"}

(***************************************************************************)
(* State.                                                                  *)
(***************************************************************************)
VARIABLES
    engine,      \* ContextSuggestionEngine(): "unbuilt", "ready" or "init_error"
    gs_call,     \* the arguments of the last generate_suggestions call
    gs_out,      \* its outcome: see GenerateSuggestions
    gs_prev      \* the outcome of the same call made before, if it was repeated

engineVars == <<engine, gs_call, gs_out, gs_prev>>

VARIABLES
    sc_in,       \* the candidate and query context being scored
    sc_stage,    \* "none", "candidate", "scored", "adjusted", "boosted", "raised"
    sc_score,    \* the composite score after the last step
    sc_before    \* the composite score before the last step

scoreVars == <<sc_in, sc_stage, sc_score, sc_before>>

VARIABLES
    dv_in,       \* the list and the cap handed to diversify_sources
    dv_stage,    \* "none", "called", "returned"
    dv_kept,     \* the indices of the input the call kept
    dv_out       \* the list it returned

curatorVars == <<dv_in, dv_stage, dv_kept, dv_out>>

VARIABLES
    services,    \* the module-level services of suggest.py: "unloaded", "up", "down"
    api_req,     \* the SuggestRequest being handled
    api_upstream, \* what the embedding and the search did for it
    api_resp     \* what the handler answered: see Suggest

apiVars == <<services, api_req, api_upstream, api_resp>>

VARIABLES
    llm_in,        \* the arguments of LLMService.generate_suggestions
    llm_stage,     \* "none", "called", "looping", "returned", "raised"
    llm_i,         \* the loop index i
    llm_outcomes,  \* what the calls made so far came to
    llm_out        \* the list `suggestions`, and at the end the list returned

llmVars == <<llm_in, llm_stage, llm_i, llm_outcomes, llm_out>>

VARIABLES
    vs_index,      \* the collection: id -> [vector, payload]
    vs_before,     \* the collection when store_vectors was entered
    vs_call,       \* the arguments of store_vectors
    vs_result      \* "none", "False", "True", "ValueError", "error"

storeVars == <<vs_index, vs_before, vs_call, vs_result>>

VARIABLES
    se_in,         \* the arguments of HybridSearchEngine.search
    se_stage,      \* "none", "called", "retrieved", "returned", "raised"
    se_hits,       \* vector_results, what the index returned
    se_out         \* the list search returned

searchVars == <<se_in, se_stage, se_hits, se_out>>

VARIABLES
    hse_weights,   \* HybridSearchEngine.weights of the shared instance
    cse_patterns,  \* ContextSuggestionEngine.suggestion_patterns of the shared instance
    cc_req,        \* request id -> the request
    cc_pc,         \* request id -> "none", "start", "awaiting", "searched", "done"
    cc_results,    \* request id -> what search returned to it
    cc_out,        \* request id -> what generate_suggestions came to for it
    cc_overlapped  \* request id -> the other request took a step during its await

concurrentVars ==
    <<hse_weights, cse_patterns, cc_req, cc_pc, cc_results, cc_out, cc_overlapped>>

VARIABLES
    fa_in,         \* [timestamp, source, context, now]: a payload, a context, the clock
    fa_out         \* [temporal, source_score]: the factors computed, -1 before

factorVars == <<fa_in, fa_out>>

VARIABLES
    pa_in,         \* [search_results, current_text, topics]: what the extraction reads
    pa_out         \* [status, patterns]: the six buckets once extracted

patternVars == <<pa_in, pa_out>>

VARIABLES
    tr_clock,      \* time.time() in microseconds since the first request came
    tr_pc,         \* per request: "waiting", "running" (in the handler), "answered"
    tr_id          \* per request: the trace_id the handler gave it

traceVars == <<tr_clock, tr_pc, tr_id>>

VARIABLES
    sy_run,        \* the running sync: [pc, before, queue, fetched, failed]
    sy_world       \* what outlives it: [file, stored, clock, edited, runs]

syncVars == <<sy_run, sy_world>>

vars == <<engineVars, scoreVars, curatorVars, apiVars, llmVars, storeVars, searchVars,
          concurrentVars, factorVars, patternVars, traceVars, syncVars>>

NoCall == [current_text |-> <<>>, context |-> <<>>, search_results |-> <<>>,
           suggestion_type |-> "none", topics |-> <<>>]

NoOutcome == [status |-> "idle", suggestions |-> <<>>, proposals |-> <<>>, ran |-> {}]

EngineIdle ==
    /\ engine = "unbuilt"
    /\ gs_call = NoCall
    /\ gs_out = NoOutcome
    /\ gs_prev = NoOutcome

NoCandidate ==
    [id |-> "", score |-> 0, text |-> <<>>, title_len |-> 0, source |-> Missing,
     timestamp |-> Absent, content_type |-> Missing]

NoScoring == [cand |-> NoCandidate, query |-> <<>>, context |-> <<>>, hint |-> Missing]

ScoreIdle ==
    /\ sc_in = NoScoring
    /\ sc_stage = "none"
    /\ sc_score = 0
    /\ sc_before = 0

CuratorIdle ==
    /\ dv_in = [results |-> <<>>, max_per_source |-> 0]
    /\ dv_stage = "none"
    /\ dv_kept = <<>>
    /\ dv_out = <<>>

NoRequest == [text |-> <<>>, task |-> "none", num_suggestions |-> 0, max_length |-> 0]

NoResponse ==
    [status |-> 0, suggestions |-> <<>>, n_sources |-> 0, has_stats |-> FALSE,
     chunks_retrieved |-> 0, chunks_processed |-> 0, ran |-> {}]

NoUpstream == [embedding_ok |-> TRUE, search_ok |-> TRUE, search_results |-> <<>>]

ApiIdle ==
    /\ services = "unloaded"
    /\ api_req = NoRequest
    /\ api_upstream = NoUpstream
    /\ api_resp = NoResponse

NoSearch == [query |-> <<>>, context |-> <<>>, top_k |-> 0, source_filter |-> Missing,
             content_type_hint |-> Missing]

SearchIdle ==
    /\ se_in = NoSearch
    /\ se_stage = "none"
    /\ se_hits = <<>>
    /\ se_out = <<>>

NoFactors == [temporal |-> -1, source_score |-> -1]

FactorIdle ==
    /\ fa_in = [timestamp |-> [kind |-> "missing", hour |-> 0], source |-> Missing,
                context |-> <<>>, now |-> 0]
    /\ fa_out = NoFactors

NoPatterns ==
    [common_phrases |-> <<>>, sentence_starters |-> <<>>, transitions |-> <<>>,
     closings |-> <<>>, tone_examples |-> <<>>, topic_connections |-> <<>>]

PatternIdle ==
    /\ pa_in = [search_results |-> <<>>, current_text |-> <<>>, topics |-> <<>>]
    /\ pa_out = [status |-> "idle", patterns |-> NoPatterns]

NoTrace == TraceId(0)

TraceIdle ==
    /\ tr_clock = 0
    /\ tr_pc = [t \in TraceRequests |-> "unsent"]
    /\ tr_id = [t \in TraceRequests |-> NoTrace]

NoRun == [pc |-> "idle", before |-> 0, queue |-> <<>>, fetched |-> {}, failed |-> {}]

SyncIdle ==
    /\ sy_run = NoRun
    /\ sy_world = [file |-> 0, stored |-> {}, clock |-> 0,
                   edited |-> [d \in SyncDocs |-> 0], runs |-> 0]

NoConcurrentRequest ==
    [query |-> <<>>, context |-> <<>>, top_k |-> 0, source_filter |-> Missing,
     hits |-> <<>>, suggestion_type |-> "none", topics |-> <<>>]

NoSuggestions == [status |-> "none", suggestions |-> <<>>]

ConcurrentIdle ==
    /\ hse_weights = weights
    /\ cse_patterns = suggestion_patterns
    /\ cc_req = [t \in RequestIds |-> NoConcurrentRequest]
    /\ cc_pc = [t \in RequestIds |-> "none"]
    /\ cc_results = [t \in RequestIds |-> <<>>]
    /\ cc_out = [t \in RequestIds |-> NoSuggestions]
    /\ cc_overlapped = [t \in RequestIds |-> FALSE]

EmptyIndex == [id \in {} |-> [vector |-> "vec_1", payload |-> "payload_1"]]

NoStoreCall == [vectors |-> <<>>, ids |-> <<>>, payloads |-> <<>>]

StoreIdle ==
    /\ vs_index = EmptyIndex
    /\ vs_before = EmptyIndex
    /\ vs_call = NoStoreCall
    /\ vs_result = "none"

NoLlmRequest == [user_text |-> <<>>, task |-> "none", num_suggestions |-> 0,
                 has_chunks |-> FALSE]

LlmIdle ==
    /\ llm_in = NoLlmRequest
    /\ llm_stage = "none"
    /\ llm_i = 0
    /\ llm_outcomes = <<>>
    /\ llm_out = <<>>

(***************************************************************************)
(* The suggestion engine as a state machine.  `engine` is what the         *)
(* expression ContextSuggestionEngine() came to.  generate_suggestions is   *)
(* modelled as the method taken by itself: its self carries the dispatch   *)
(* table as __init__ writes it, and an entry is resolved when the request  *)
(* reaches it.  Once the constructor has raised there is no object left to *)
(* call the method on.                                                     *)
(***************************************************************************)
InitEngine == EngineIdle /\ ScoreIdle /\ CuratorIdle /\ ApiIdle /\ LlmIdle /\ StoreIdle /\ SearchIdle /\ ConcurrentIdle /\ FactorIdle /\ PatternIdle /\ TraceIdle /\ SyncIdle

\* ContextSuggestionEngine()
Construct ==
    /\ engine = "unbuilt"
    /\ gs_out.status = "idle"
    /\ engine' = ConstructEngine
    /\ UNCHANGED <<gs_call, gs_out, gs_prev, scoreVars, curatorVars, apiVars, llmVars, storeVars, searchVars, concurrentVars, factorVars, patternVars, traceVars, syncVars>>

\* generate_suggestions(self, current_text, context, search_results, suggestion_type)
CallGenerateSuggestions ==
    \E current_text \in Texts, context \in Contexts,
       search_results \in SeqsUpTo(EngineResults, MaxResults),
       suggestion_type \in Categories :
      \E topics \in ExtractKeyTopics(current_text) :
        /\ engine /= "init_error"
        /\ gs_out.status = "idle"
        /\ gs_call' = [current_text |-> current_text, context |-> context,
                       search_results |-> search_results,
                       suggestion_type |-> suggestion_type, topics |-> topics]
        /\ gs_out' = GenerateSuggestions(current_text, context, search_results,
                                         suggestion_type, topics)
        /\ UNCHANGED <<engine, gs_prev, scoreVars, curatorVars, apiVars, llmVars, storeVars, searchVars, concurrentVars, factorVars, patternVars, traceVars, syncVars>>

\* the same call made once more, in this process or in another one: the
\* arguments are those of the first call, list(set(keywords)) is evaluated anew
CallAgain ==
    \E topics \in ExtractKeyTopics(gs_call.current_text) :
        /\ engine /= "init_error"
        /\ gs_out.status /= "idle"
        /\ gs_prev.status = "idle"
        /\ gs_prev' = gs_out
        /\ gs_call' = [gs_call EXCEPT !.topics = topics]
        /\ gs_out' = GenerateSuggestions(gs_call.current_text, gs_call.context,
                                         gs_call.search_results,
                                         gs_call.suggestion_type, topics)
        /\ UNCHANGED <<engine, scoreVars, curatorVars, apiVars, llmVars, storeVars, searchVars, concurrentVars, factorVars, patternVars, traceVars, syncVars>>

\* the caller takes the outcome; the engine keeps nothing of the call
Return ==
    /\ gs_out.status /= "idle"
    /\ gs_call' = NoCall
    /\ gs_out' = NoOutcome
    /\ gs_prev' = NoOutcome
    /\ UNCHANGED <<engine, scoreVars, curatorVars, apiVars, llmVars, storeVars, searchVars, concurrentVars, factorVars, patternVars, traceVars, syncVars>>

NextEngine == Construct \/ CallGenerateSuggestions \/ CallAgain \/ Return

SpecEngine == InitEngine /\ [][NextEngine]_vars

(***************************************************************************)
(* The scorer as a state machine: one candidate is scored by               *)
(* _calculate_hybrid_score, then adjusted for query specificity, then      *)
(* boosted for exact matches.                                              *)
(***************************************************************************)
InitScoring ==
    /\ EngineIdle
    /\ CuratorIdle
    /\ ApiIdle
    /\ LlmIdle
    /\ StoreIdle
    /\ SearchIdle
    /\ ConcurrentIdle
    /\ FactorIdle
    /\ PatternIdle
    /\ TraceIdle
    /\ SyncIdle
    /\ sc_in \in [cand : ScoreCandidates, query : Queries, context : ScoreContexts,
                  hint : Hints]
    /\ sc_stage = "candidate"
    /\ sc_score = 0
    /\ sc_before = 0

\* self._calculate_hybrid_score(result, query, context, content_type_hint)['total']
Score ==
    /\ sc_stage = "candidate"
    /\ sc_stage' = "scored"
    /\ sc_score' = CalculateHybridScore(sc_in.cand, sc_in.query, sc_in.context, sc_in.hint)
    /\ sc_before' = sc_score
    /\ UNCHANGED <<sc_in, engineVars, curatorVars, apiVars, llmVars, storeVars, searchVars, concurrentVars, factorVars, patternVars, traceVars, syncVars>>

\* ContextAwareScoring.adjust_for_query_specificity(score, query)
Adjust ==
    /\ sc_stage = "scored"
    /\ sc_stage' = "adjusted"
    /\ sc_score' = AdjustForQuerySpecificity(sc_score, sc_in.query)
    /\ sc_before' = sc_score
    /\ UNCHANGED <<sc_in, engineVars, curatorVars, apiVars, llmVars, storeVars, searchVars, concurrentVars, factorVars, patternVars, traceVars, syncVars>>

\* ContextAwareScoring.boost_exact_matches(score, query, content)
Boost ==
    /\ sc_stage = "adjusted"
    /\ LET boosted == BoostExactMatches(sc_score, sc_in.query, sc_in.cand.text)
       IN  IF boosted.raised
           THEN sc_stage' = "raised" /\ sc_score' = sc_score
           ELSE sc_stage' = "boosted" /\ sc_score' = boosted.value
    /\ sc_before' = sc_score
    /\ UNCHANGED <<sc_in, engineVars, curatorVars, apiVars, llmVars, storeVars, searchVars, concurrentVars, factorVars, patternVars, traceVars, syncVars>>

NextScoring == Score \/ Adjust \/ Boost

SpecScoring == InitScoring /\ [][NextScoring]_vars

(***************************************************************************)
(* diversify_sources as a state machine: a list and a cap are handed in,   *)
(* the call returns.                                                       *)
(***************************************************************************)
InitCurator ==
    /\ EngineIdle
    /\ ScoreIdle
    /\ ApiIdle
    /\ LlmIdle
    /\ StoreIdle
    /\ SearchIdle
    /\ ConcurrentIdle
    /\ FactorIdle
    /\ PatternIdle
    /\ TraceIdle
    /\ SyncIdle
    /\ dv_in \in [results : SeqsUpTo(CuratorResults, MaxList), max_per_source : 0..MaxCap]
    /\ dv_stage = "called"
    /\ dv_kept = <<>>
    /\ dv_out = <<>>

\* ContextAwareScoring.diversify_sources(results, max_per_source)
Diversify ==
    /\ dv_stage = "called"
    /\ dv_stage' = "returned"
    /\ dv_kept' = KeptAmong(dv_in.results, dv_in.max_per_source, Len(dv_in.results))
    /\ dv_out' = DiversifySources(dv_in.results, dv_in.max_per_source)
    /\ UNCHANGED <<dv_in, engineVars, scoreVars, apiVars, llmVars, storeVars, searchVars, concurrentVars, factorVars, patternVars, traceVars, syncVars>>

NextCurator == Diversify

SpecCurator == InitCurator /\ [][NextCurator]_vars

(***************************************************************************)
(* The /api/suggest handler as a state machine: the module is imported     *)
(* (its services come up or not), then requests are handled one by one.    *)
(***************************************************************************)
InitApi == EngineIdle /\ ScoreIdle /\ CuratorIdle /\ ApiIdle /\ LlmIdle /\ StoreIdle /\ SearchIdle /\ ConcurrentIdle /\ FactorIdle /\ PatternIdle /\ TraceIdle /\ SyncIdle

\* the module-level try/except around get_vector_services()
LoadModule ==
    /\ services = "unloaded"
    /\ \E up \in BOOLEAN : services' = IF up THEN "up" ELSE "down"
    /\ UNCHANGED <<api_req, api_upstream, api_resp, engineVars, scoreVars, curatorVars, llmVars, storeVars, searchVars, concurrentVars, factorVars, patternVars, traceVars, syncVars>>

\* POST /api/suggest: the embedding and the search return or raise
HandleSuggest ==
    \E request \in Requests, embedding_ok \in BOOLEAN, search_ok \in BOOLEAN,
       search_results \in SeqsUpTo(Chunks, MaxChunks) :
      \E unique_candidates \in
            UniqueOrders(ContinuationCandidates(request.text,
                                                RelevantSegments(search_results),
                                                request.max_length)) :
        /\ services /= "unloaded"
        /\ api_resp.status = 0
        /\ api_req' = request
        /\ api_upstream' = [embedding_ok |-> embedding_ok, search_ok |-> search_ok,
                            search_results |-> search_results]
        /\ api_resp' = PostSuggest(request, services = "up", embedding_ok, search_ok,
                                   search_results, unique_candidates)
        /\ UNCHANGED <<services, engineVars, scoreVars, curatorVars, llmVars, storeVars, searchVars, concurrentVars, factorVars, patternVars, traceVars, syncVars>>

\* the response is sent; the handler keeps nothing of the request
Respond ==
    /\ api_resp.status /= 0
    /\ api_req' = NoRequest
    /\ api_upstream' = NoUpstream
    /\ api_resp' = NoResponse
    /\ UNCHANGED <<services, engineVars, scoreVars, curatorVars, llmVars, storeVars, searchVars, concurrentVars, factorVars, patternVars, traceVars, syncVars>>

NextApi == LoadModule \/ HandleSuggest \/ Respond

SpecApi == InitApi /\ [][NextApi]_vars

(***************************************************************************)
(* LLMService.generate_suggestions as a state machine: the call is entered,*)
(* the loop makes its calls one by one, the method returns.                *)
(***************************************************************************)
InitLlm ==
    /\ EngineIdle
    /\ ScoreIdle
    /\ CuratorIdle
    /\ ApiIdle
    /\ StoreIdle
    /\ SearchIdle
    /\ ConcurrentIdle
    /\ FactorIdle
    /\ PatternIdle
    /\ TraceIdle
    /\ SyncIdle
    /\ llm_in \in LlmRequests
    /\ llm_stage = "called"
    /\ llm_i = 0
    /\ llm_outcomes = <<>>
    /\ llm_out = <<>>

\* the head of the method: without chunks the fallbacks are returned at once
EnterLlm ==
    /\ llm_stage = "called"
    /\ IF ~llm_in.has_chunks
       THEN /\ llm_stage' = "returned"
            /\ llm_out' = LlmFallbackSuggestions(llm_in.user_text, llm_in.task,
                                                 llm_in.num_suggestions)
       ELSE /\ llm_stage' = "looping"
            /\ llm_out' = llm_out
    /\ UNCHANGED <<llm_in, llm_i, llm_outcomes, engineVars, scoreVars, curatorVars,
                   apiVars, storeVars, searchVars, concurrentVars, factorVars, patternVars, traceVars, syncVars>>

\* one pass of `for i in range(num_suggestions)`
AttemptCall ==
    \E outcome \in CallOutcomes :
        /\ llm_stage = "looping"
        /\ llm_i < llm_in.num_suggestions
        /\ LET after == AfterCall(llm_out, llm_i, outcome)
           IN  /\ llm_out' = after.suggestions
               /\ llm_stage' = IF after.raised THEN "raised" ELSE "looping"
        /\ llm_outcomes' = Append(llm_outcomes, outcome)
        /\ llm_i' = llm_i + 1
        /\ UNCHANGED <<llm_in, engineVars, scoreVars, curatorVars, apiVars, storeVars, searchVars, concurrentVars, factorVars, patternVars, traceVars, syncVars>>

\* the loop is over: the suggestions collected, or the fallbacks
FinishLlm ==
    /\ llm_stage = "looping"
    /\ llm_i = llm_in.num_suggestions
    /\ llm_stage' = "returned"
    /\ llm_out' = OrFallbacks(llm_out, llm_in.user_text, llm_in.task,
                              llm_in.num_suggestions)
    /\ UNCHANGED <<llm_in, llm_i, llm_outcomes, engineVars, scoreVars, curatorVars,
                   apiVars, storeVars, searchVars, concurrentVars, factorVars, patternVars, traceVars, syncVars>>

NextLlm == EnterLlm \/ AttemptCall \/ FinishLlm

SpecLlm == InitLlm /\ [][NextLlm]_vars

(***************************************************************************)
(* HybridSearchEngine.search as a state machine: the call is entered, the  *)
(* index answers or raises, the candidates are ranked and returned.        *)
(***************************************************************************)
InitSearch ==
    /\ EngineIdle
    /\ ScoreIdle
    /\ CuratorIdle
    /\ ApiIdle
    /\ LlmIdle
    /\ StoreIdle
    /\ ConcurrentIdle
    /\ FactorIdle
    /\ PatternIdle
    /\ TraceIdle
    /\ SyncIdle
    /\ se_in \in SearchRequests
    /\ se_stage = "called"
    /\ se_hits = <<>>
    /\ se_out = <<>>

\* generate_embedding and search_similar(top_k = top_k * 3): either of them
\* raises, which search does not catch, or the index answers
Retrieve ==
    /\ se_stage = "called"
    /\ \E raises \in BOOLEAN, vector_results \in IndexAnswers(se_in.top_k * 3) :
        /\ IF raises
           THEN se_stage' = "raised" /\ se_hits' = se_hits
           ELSE se_stage' = "retrieved" /\ se_hits' = vector_results
        /\ UNCHANGED <<se_in, se_out, engineVars, scoreVars, curatorVars, apiVars,
                       llmVars, storeVars, concurrentVars, factorVars, patternVars, traceVars, syncVars>>

\* the scoring loop, the sort, the source filter and the cut to top_k
Rank ==
    /\ se_stage = "retrieved"
    /\ se_stage' = "returned"
    /\ se_out' = RankResults(weights, se_hits, se_in.query, se_in.context, se_in.top_k,
                             se_in.source_filter, se_in.content_type_hint)
    /\ UNCHANGED <<se_in, se_hits, engineVars, scoreVars, curatorVars, apiVars,
                   llmVars, storeVars, concurrentVars, factorVars, patternVars, traceVars, syncVars>>

NextSearch == Retrieve \/ Rank

SpecSearch == InitSearch /\ [][NextSearch]_vars

(***************************************************************************)
(* Two requests on the shared instances.  search gives the event loop back *)
(* at `await self.vector_service.search_similar(...)`; what follows the     *)
(* await, and generate_suggestions, which awaits nothing, each run in one  *)
(* piece.  The steps of the two requests interleave in every order.        *)
(***************************************************************************)
InitConcurrent ==
    /\ EngineIdle
    /\ ScoreIdle
    /\ CuratorIdle
    /\ ApiIdle
    /\ LlmIdle
    /\ StoreIdle
    /\ SearchIdle
    /\ FactorIdle
    /\ PatternIdle
    /\ TraceIdle
    /\ SyncIdle
    /\ hse_weights = weights
    /\ cse_patterns = suggestion_patterns
    /\ cc_req \in [RequestIds -> ConcurrentRequests]
    /\ cc_pc = [t \in RequestIds |-> "start"]
    /\ cc_results = [t \in RequestIds |-> <<>>]
    /\ cc_out = [t \in RequestIds |-> NoSuggestions]
    /\ cc_overlapped = [t \in RequestIds |-> FALSE]

\* a step of request t ran: the requests that are waiting for the index saw it
Overlap(t) ==
    [u \in RequestIds |-> cc_overlapped[u] \/ (u /= t /\ cc_pc[u] = "awaiting")]

\* search up to the await: the embedding, the query sent to the index
BeginSearch(t) ==
    /\ cc_pc[t] = "start"
    /\ cc_pc' = [cc_pc EXCEPT ![t] = "awaiting"]
    /\ hse_weights' = WeightsAfterSearch(hse_weights, cc_req[t])
    /\ cc_overlapped' = Overlap(t)
    /\ UNCHANGED <<cse_patterns, cc_req, cc_results, cc_out, engineVars, scoreVars,
                   curatorVars, apiVars, llmVars, storeVars, searchVars, factorVars, patternVars, traceVars, syncVars>>

\* search after the await: scoring with self.weights, sort, filter, cut
ResumeSearch(t) ==
    /\ cc_pc[t] = "awaiting"
    /\ cc_pc' = [cc_pc EXCEPT ![t] = "searched"]
    /\ cc_results' = [cc_results EXCEPT ![t] =
                         RankResults(hse_weights, cc_req[t].hits, cc_req[t].query,
                                     cc_req[t].context, cc_req[t].top_k,
                                     cc_req[t].source_filter, Missing)]
    /\ hse_weights' = WeightsAfterSearch(hse_weights, cc_req[t])
    /\ cc_overlapped' = Overlap(t)
    /\ UNCHANGED <<cse_patterns, cc_req, cc_out, engineVars, scoreVars, curatorVars,
                   apiVars, llmVars, storeVars, searchVars, factorVars, patternVars, traceVars, syncVars>>

\* generate_suggestions on the results of the search, with the table of the
\* shared instance
SuggestFor(t) ==
    /\ cc_pc[t] = "searched"
    /\ cc_pc' = [cc_pc EXCEPT ![t] = "done"]
    /\ LET outcome == GenerateSuggestionsOn(cse_patterns, cc_req[t].query,
                                            cc_req[t].context, cc_results[t],
                                            cc_req[t].suggestion_type, cc_req[t].topics)
       IN  cc_out' = [cc_out EXCEPT ![t] = [status |-> outcome.status,
                                            suggestions |-> outcome.suggestions]]
    /\ cc_overlapped' = Overlap(t)
    /\ UNCHANGED <<hse_weights, cse_patterns, cc_req, cc_results, engineVars, scoreVars,
                   curatorVars, apiVars, llmVars, storeVars, searchVars, factorVars, patternVars, traceVars, syncVars>>

NextConcurrent ==
    \E t \in RequestIds : BeginSearch(t) \/ ResumeSearch(t) \/ SuggestFor(t)

SpecConcurrent == InitConcurrent /\ [][NextConcurrent]_vars

(***************************************************************************)
(* The temporal and the source factor of one payload, computed in either   *)
(* order as the dictionary of _calculate_hybrid_score is built.            *)
(***************************************************************************)
InitFactors ==
    /\ EngineIdle
    /\ ScoreIdle
    /\ CuratorIdle
    /\ ApiIdle
    /\ LlmIdle
    /\ StoreIdle
    /\ SearchIdle
    /\ ConcurrentIdle
    /\ PatternIdle
    /\ TraceIdle
    /\ SyncIdle
    /\ fa_in \in [timestamp : PayloadTimestamps, source : FactorSources,
                   context : FactorContexts, now : Clocks]
    /\ fa_out = NoFactors

\* self._calculate_temporal_score(payload)
CalcTemporal ==
    /\ fa_out.temporal = -1
    /\ fa_out' = [fa_out EXCEPT !.temporal =
                      CalculateTemporalScore([timestamp |->
                          ParseTimestamp(fa_in.timestamp, fa_in.now)])]
    /\ UNCHANGED <<fa_in, engineVars, scoreVars, curatorVars, apiVars, llmVars,
                   storeVars, searchVars, concurrentVars, patternVars, traceVars, syncVars>>

\* self._calculate_source_score(payload, context)
CalcSource ==
    /\ fa_out.source_score = -1
    /\ fa_out' = [fa_out EXCEPT !.source_score =
                      CalculateSourceScore([source |-> fa_in.source], fa_in.context)]
    /\ UNCHANGED <<fa_in, engineVars, scoreVars, curatorVars, apiVars, llmVars,
                   storeVars, searchVars, concurrentVars, patternVars, traceVars, syncVars>>

NextFactors == CalcTemporal \/ CalcSource

SpecFactors == InitFactors /\ [][NextFactors]_vars

(***************************************************************************)
(* Pattern extraction as generate_suggestions runs it for a list that is   *)
(* not empty: the current text is analysed, then the patterns are          *)
(* extracted from the list.                                                *)
(***************************************************************************)
InitPatterns ==
    /\ EngineIdle
    /\ ScoreIdle
    /\ CuratorIdle
    /\ ApiIdle
    /\ LlmIdle
    /\ StoreIdle
    /\ SearchIdle
    /\ ConcurrentIdle
    /\ FactorIdle
    /\ TraceIdle
    /\ SyncIdle
    /\ pa_in \in [search_results : PatternLists,
                   current_text : PatternTexts, topics : {<<>>}]
    /\ pa_out = [status |-> "called", patterns |-> NoPatterns]

\* text_analysis = self._analyze_current_text(current_text, context)
AnalysePatternText ==
    /\ pa_out.status = "called"
    /\ \E topics \in ExtractKeyTopics(pa_in.current_text) :
          pa_in' = [pa_in EXCEPT !.topics = topics]
    /\ pa_out' = [pa_out EXCEPT !.status = "analysed"]
    /\ UNCHANGED <<engineVars, scoreVars, curatorVars, apiVars, llmVars, storeVars,
                   searchVars, concurrentVars, factorVars, traceVars, syncVars>>

\* patterns = self._extract_writing_patterns(search_results, text_analysis)
ExtractPatterns ==
    /\ pa_out.status = "analysed"
    /\ pa_out' = [status |-> "extracted",
                  patterns |-> ExtractWritingPatterns(pa_in.search_results,
                                 AnalyzeCurrentText(pa_in.current_text, <<>>, pa_in.topics))]
    /\ UNCHANGED <<pa_in, engineVars, scoreVars, curatorVars, apiVars, llmVars,
                   storeVars, searchVars, concurrentVars, factorVars, traceVars, syncVars>>

NextPatterns == AnalysePatternText \/ ExtractPatterns

SpecPatterns == InitPatterns /\ [][NextPatterns]_vars

(***************************************************************************)
(* The trace ids of two POSTs to /api/suggest.  The handler is a           *)
(* coroutine: a request enters it while the other one is waiting for its   *)
(* search, or after the other one was answered.                            *)
(***************************************************************************)
InitTrace ==
    /\ EngineIdle
    /\ ScoreIdle
    /\ CuratorIdle
    /\ ApiIdle
    /\ LlmIdle
    /\ StoreIdle
    /\ SearchIdle
    /\ ConcurrentIdle
    /\ FactorIdle
    /\ PatternIdle
    /\ SyncIdle
    /\ tr_clock = 0
    /\ tr_pc = [t \in TraceRequests |-> "waiting"]
    /\ tr_id = [t \in TraceRequests |-> NoTrace]

\* time passes
Tick ==
    /\ tr_clock < MaxTicks * 400
    /\ tr_clock' = tr_clock + 400
    /\ UNCHANGED <<tr_pc, tr_id, engineVars, scoreVars, curatorVars, apiVars, llmVars,
                   storeVars, searchVars, concurrentVars, factorVars, patternVars, syncVars>>

\* suggest(request) is entered: trace_id = f"suggest_{int(time.time() * 1000)}"
EnterSuggest(t) ==
    /\ tr_pc[t] = "waiting"
    /\ tr_pc' = [tr_pc EXCEPT ![t] = "running"]
    /\ tr_id' = [tr_id EXCEPT ![t] = TraceId(tr_clock)]
    /\ UNCHANGED <<tr_clock, engineVars, scoreVars, curatorVars, apiVars, llmVars,
                   storeVars, searchVars, concurrentVars, factorVars, patternVars, syncVars>>

\* the handler returns the SuggestResponse or raises the HTTPException, both
\* with the trace_id it made on entry
AnswerSuggest(t) ==
    /\ tr_pc[t] = "running"
    /\ tr_pc' = [tr_pc EXCEPT ![t] = "answered"]
    /\ UNCHANGED <<tr_clock, tr_id, engineVars, scoreVars, curatorVars, apiVars, llmVars,
                   storeVars, searchVars, concurrentVars, factorVars, patternVars, syncVars>>

NextTrace ==
    Tick \/ \E t \in TraceRequests : EnterSuggest(t) \/ AnswerSuggest(t)

SpecTrace == InitTrace /\ [][NextTrace]_vars

(***************************************************************************)
(* IntegrationService.sync_documents as a state machine: the documents are *)
(* fetched, then one document at a time is processed, embedded and stored, *)
(* then the state file is written.  Each await of the coroutine ends a     *)
(* step.                                                                   *)
(***************************************************************************)
InitSync ==
    /\ EngineIdle
    /\ ScoreIdle
    /\ CuratorIdle
    /\ ApiIdle
    /\ LlmIdle
    /\ StoreIdle
    /\ SearchIdle
    /\ ConcurrentIdle
    /\ FactorIdle
    /\ PatternIdle
    /\ TraceIdle
    /\ sy_run = NoRun
    /\ \E file \in {0, 1}, edited \in [SyncDocs -> {1, 2}] :
          sy_world = [file |-> file, stored |-> {}, clock |-> 3, edited |-> edited,
                      runs |-> 0]

\* sync_documents(force_full_sync) up to the return of process_all_documents,
\* which raises or returns the documents
StartSync ==
    /\ sy_run.pc = "idle"
    /\ sy_world.runs < MaxSyncs
    /\ \E force_full_sync \in BOOLEAN, fetch_ok \in BOOLEAN :
          LET last_sync_time == LastSyncTimeFor(force_full_sync, sy_world.file)
              documents == DocumentsSince(sy_world.edited, last_sync_time)
          IN  sy_run' = IF fetch_ok
                        THEN [pc |-> "syncing", before |-> sy_world.file,
                              queue |-> documents,
                              fetched |-> {documents[i] : i \in 1..Len(documents)},
                              failed |-> {}]
                        ELSE [pc |-> "raised", before |-> sy_world.file,
                              queue |-> <<>>, fetched |-> {}, failed |-> {"fetch"}]
    /\ sy_world' = [sy_world EXCEPT !.runs = @ + 1]
    /\ UNCHANGED <<engineVars, scoreVars, curatorVars, apiVars, llmVars, storeVars,
                   searchVars, concurrentVars, factorVars, patternVars, traceVars>>

\* one turn of the loop `for document in documents`
ProcessDocument ==
    /\ sy_run.pc = "syncing"
    /\ sy_run.queue /= <<>>
    /\ \E outcome \in DocumentOutcomes :
          LET document == Head(sy_run.queue)
          IN  CASE outcome = "stored" ->
                     /\ sy_run' = [sy_run EXCEPT !.queue = Tail(@)]
                     /\ sy_world' = [sy_world EXCEPT !.stored = @ \cup {document}]
                [] outcome = "no_content" ->
                     /\ sy_run' = [sy_run EXCEPT !.queue = Tail(@)]
                     /\ sy_world' = sy_world
                [] outcome = "process_failed" ->
                     /\ sy_run' = [sy_run EXCEPT !.queue = Tail(@),
                                                 !.failed = @ \cup {"process"}]
                     /\ sy_world' = sy_world
                [] outcome = "embed_raised" ->
                     /\ sy_run' = [sy_run EXCEPT !.pc = "raised",
                                                 !.failed = @ \cup {"embed"}]
                     /\ sy_world' = sy_world
                [] outcome = "store_raised" ->
                     /\ sy_run' = [sy_run EXCEPT !.pc = "raised",
                                                 !.failed = @ \cup {"store"}]
                     /\ sy_world' = sy_world
    /\ UNCHANGED <<engineVars, scoreVars, curatorVars, apiVars, llmVars, storeVars,
                   searchVars, concurrentVars, factorVars, patternVars, traceVars>>

\* after the loop: _update_last_sync_time(datetime.now().isoformat()), which
\* writes the state file or logs the error of the write, then the stats
FinishSync ==
    /\ sy_run.pc = "syncing"
    /\ sy_run.queue = <<>>
    /\ \E written \in BOOLEAN :
          sy_world' = [sy_world EXCEPT !.file = IF written THEN sy_world.clock ELSE @]
    /\ sy_run' = [sy_run EXCEPT !.pc = "done"]
    /\ UNCHANGED <<engineVars, scoreVars, curatorVars, apiVars, llmVars, storeVars,
                   searchVars, concurrentVars, factorVars, patternVars, traceVars>>

\* the caller has the stats or the exception; time passes until the next sync
LeaveSync ==
    /\ sy_run.pc \in {"done", "raised"}
    /\ sy_run' = NoRun
    /\ sy_world' = [sy_world EXCEPT !.clock = @ + 1]
    /\ UNCHANGED <<engineVars, scoreVars, curatorVars, apiVars, llmVars, storeVars,
                   searchVars, concurrentVars, factorVars, patternVars, traceVars>>

NextSync == StartSync \/ ProcessDocument \/ FinishSync \/ LeaveSync

SpecSync == InitSync /\ [][NextSync]_vars

(***************************************************************************)
(* VectorService as a state machine: store_vectors is called on the        *)
(* collection again and again.                                             *)
(***************************************************************************)
InitStore ==
    /\ EngineIdle
    /\ ScoreIdle
    /\ CuratorIdle
    /\ ApiIdle
    /\ LlmIdle
    /\ StoreIdle
    /\ SearchIdle
    /\ ConcurrentIdle
    /\ FactorIdle
    /\ PatternIdle
    /\ TraceIdle
    /\ SyncIdle

CallStoreVectors ==
    \E vectors \in SeqsUpTo(Vectors, MaxBatch), ids \in SeqsUpTo(PointIds, MaxBatch),
       payloads \in SeqsUpTo(Payloads, MaxBatch), upsert \in UpsertOutcomes :
        /\ vs_result = "none"
        /\ LET out == StoreVectors(vs_index, vectors, ids, payloads, upsert)
           IN  /\ vs_result' = out.result
               /\ vs_index' = out.index
        /\ vs_before' = vs_index
        /\ vs_call' = [vectors |-> vectors, ids |-> ids, payloads |-> payloads]
        /\ UNCHANGED <<engineVars, scoreVars, curatorVars, apiVars, llmVars, searchVars, concurrentVars, factorVars, patternVars, traceVars, syncVars>>

ReturnStore ==
    /\ vs_result /= "none"
    /\ vs_result' = "none"
    /\ vs_call' = NoStoreCall
    /\ vs_before' = vs_index
    /\ UNCHANGED <<vs_index, engineVars, scoreVars, curatorVars, apiVars, llmVars, searchVars, concurrentVars, factorVars, patternVars, traceVars, syncVars>>

NextStore == CallStoreVectors \/ ReturnStore

SpecStore == InitStore /\ [][NextStore]_vars

(***************************************************************************)
(* Properties of generate_suggestions (SpecEngine).                        *)
(***************************************************************************)
RequestCategories == {"continuation", "completion", "enhancement"}

\* C1: for every non-empty current text, every request category and every
\* candidate list, empty or not, the list generate_suggestions returns holds
\* at least one suggestion.
C1_AtLeastOneSuggestion ==
    (/\ gs_out.status = "returned"
     /\ gs_call.current_text /= <<>>
     /\ gs_call.suggestion_type \in RequestCategories)
    => Len(gs_out.suggestions) >= 1

\* C2: the engine can be constructed, and a request of each of the three
\* categories completes without raising, having dispatched (when there are
\* candidates) to exactly 3 strategies the class defines.
C2_ConstructsAndDispatches ==
    /\ engine /= "init_error"
    /\ (gs_out.status /= "idle" /\ gs_call.suggestion_type \in RequestCategories)
       => /\ gs_out.status = "returned"
          /\ gs_call.search_results /= <<>>
             => Cardinality(gs_out.ran \cap DefinedStrategies) = 3

\* C6: no two suggestions of the list generate_suggestions returns have the
\* same text.
C6_NoDuplicateText ==
    gs_out.status = "returned"
    => \A i, j \in 1..Len(gs_out.suggestions) :
          i < j => gs_out.suggestions[i].text /= gs_out.suggestions[j].text

\* the strategies proposed one text twice within a strategy and across two
\* strategies, and a list was returned
C6_Witness ==
    /\ gs_out.status = "returned"
    /\ Len(gs_out.suggestions) >= 1
    /\ \E i, j \in 1..Len(gs_out.proposals) :
          /\ i < j
          /\ gs_out.proposals[i].text = gs_out.proposals[j].text
          /\ gs_out.proposals[i].suggestion_type = gs_out.proposals[j].suggestion_type
    /\ \E i, j \in 1..Len(gs_out.proposals) :
          /\ gs_out.proposals[i].text = gs_out.proposals[j].text
          /\ gs_out.proposals[i].suggestion_type /= gs_out.proposals[j].suggestion_type

\* C7: generate_suggestions never returns more than 3 suggestions.
C7_AtMostThree ==
    gs_out.status = "returned" => Len(gs_out.suggestions) <= 3

\* the strategies proposed more than 3 different texts and 3 were returned
C7_Witness ==
    /\ gs_out.status = "returned"
    /\ Cardinality({gs_out.proposals[i].text : i \in 1..Len(gs_out.proposals)}) > 3
    /\ Len(gs_out.suggestions) = 3

\* C18: every suggestion generate_suggestions returns has a confidence in
\* [0,1] (0..1000 thousandths), whatever the base confidence its strategy
\* gave it and whether the tone boost, the context-type boost, both or none
\* were applied to it.
C18_ConfidenceInUnitInterval ==
    gs_out.status = "returned"
    => \A i \in 1..Len(gs_out.suggestions) :
          /\ 0 <= gs_out.suggestions[i].confidence
          /\ gs_out.suggestions[i].confidence <= 1000

\* a returned suggestion carries both boosts: its confidence is 1.2 * 1.1
\* times the confidence its strategy proposed it with
C18_Witness ==
    /\ gs_out.status = "returned"
    /\ \E i \in 1..Len(gs_out.suggestions), j \in 1..Len(gs_out.proposals) :
          /\ gs_out.proposals[j].text = gs_out.suggestions[i].text
          /\ gs_out.proposals[j].suggestion_type = gs_out.suggestions[i].suggestion_type
          /\ gs_out.suggestions[i].suggestion_type \in {"call_to_action", "closing"}
          /\ Contains(Lower(gs_out.suggestions[i].text), <<"please">>)
          /\ gs_out.suggestions[i].confidence
                = (((gs_out.proposals[j].confidence * 12) \div 10) * 11) \div 10
          /\ gs_out.suggestions[i].confidence > gs_out.proposals[j].confidence

\* the proposals of the strategies with the boosts of the call applied
BoostedProposals ==
    LET text_analysis == AnalyzeCurrentText(gs_call.current_text, gs_call.context,
                                            gs_call.topics)
    IN  [j \in 1..Len(gs_out.proposals) |->
            BoostConfidence(gs_out.proposals[j], text_analysis)] \o <<>>

ReturnedTexts == {gs_out.suggestions[i].text : i \in 1..Len(gs_out.suggestions)}

\* C23: the suggestions generate_suggestions returns are in non-increasing
\* order of boosted confidence; each is a boosted proposal, and no proposal of
\* the same text has a higher boosted confidence; the list is the first 3 of
\* the sorted proposals without duplicates: it holds min(3, number of
\* different texts) suggestions and no proposal left out has a higher boosted
\* confidence than the last one returned.
C23_RankedDedupedTopThree ==
    (gs_out.status = "returned" /\ gs_call.search_results /= <<>>)
    => /\ \A i, j \in 1..Len(gs_out.suggestions) :
             i < j => gs_out.suggestions[i].confidence >= gs_out.suggestions[j].confidence
       /\ \A i \in 1..Len(gs_out.suggestions) :
             /\ \E j \in 1..Len(BoostedProposals) :
                   BoostedProposals[j] = gs_out.suggestions[i]
             /\ \A j \in 1..Len(BoostedProposals) :
                   BoostedProposals[j].text = gs_out.suggestions[i].text
                   => BoostedProposals[j].confidence <= gs_out.suggestions[i].confidence
       /\ Len(gs_out.suggestions)
             = Min2(3, Cardinality({BoostedProposals[j].text :
                                       j \in 1..Len(BoostedProposals)}))
       /\ \A j \in 1..Len(BoostedProposals) :
             BoostedProposals[j].text \notin ReturnedTexts
             => /\ Len(gs_out.suggestions) = 3
                /\ BoostedProposals[j].confidence <= gs_out.suggestions[3].confidence

\* one text was proposed with two different boosted confidences, the
\* returned list is strictly decreasing somewhere, and the ranking changed
\* the order of the proposals
C23_Witness ==
    /\ gs_out.status = "returned"
    /\ Len(gs_out.suggestions) >= 2
    /\ gs_out.suggestions[1].confidence > gs_out.suggestions[2].confidence
    /\ \E i, j \in 1..Len(BoostedProposals) :
          /\ BoostedProposals[i].text = BoostedProposals[j].text
          /\ BoostedProposals[i].confidence /= BoostedProposals[j].confidence
    /\ \E i, j \in 1..Len(BoostedProposals) :
          /\ i < j
          /\ BoostedProposals[i].confidence < BoostedProposals[j].confidence

\* C8: called with zero candidates, generate_suggestions returns exactly one
\* suggestion, of confidence 0.3 and type "fallback", whatever the text, the
\* context and the category, and runs neither the text analysis nor the
\* pattern extraction nor any strategy.
C8_FallbackOnNoCandidates ==
    (gs_out.status /= "idle" /\ gs_call.search_results = <<>>)
    => /\ gs_out.status = "returned"
       /\ Len(gs_out.suggestions) = 1
       /\ gs_out.suggestions[1].confidence = 300
       /\ gs_out.suggestions[1].suggestion_type = "fallback"
       /\ gs_out.ran = {"fallback"}

\* a call without candidates, with a text, a context and the category whose
\* strategies do not exist, has returned
C8_Witness ==
    /\ gs_out.status = "returned"
    /\ gs_call.search_results = <<>>
    /\ gs_call.current_text /= <<>>
    /\ gs_call.context /= <<>>
    /\ gs_call.suggestion_type = "enhancement"

\* C12: two runs on identical candidates and identical query context return
\* identical suggestions in identical order; nothing but the inputs (not the
\* iteration order of a set, not the clock) decides the outcome.
C12_SameInputsSameSuggestions ==
    gs_prev.status /= "idle" => gs_out.suggestions = gs_prev.suggestions

(***************************************************************************)
(* Properties of the /api/suggest handler (SpecApi).                       *)
(***************************************************************************)
\* C3: every suggest request is answered with a well-formed response that
\* carries at least one suggestion and the timing breakdown, whatever the
\* embedding and the search did and whether or not the services came up; no
\* request is answered with an error.
C3_AlwaysAnswered ==
    (api_resp.status /= 0 /\ Validates(api_req))
    => /\ api_resp.status = 200
       /\ Len(api_resp.suggestions) >= 1
       /\ api_resp.has_stats

\* C13: a request whose text is empty or only whitespace is refused (it is
\* answered with an error, never with suggestions), and neither the embedding
\* call nor the similarity search nor any later step is executed for it.
C13_BlankTextRejected ==
    (api_resp.status /= 0 /\ Strip(api_req.text) = <<>>)
    => /\ api_resp.status /= 200
       /\ api_resp.ran = {}

\* C19: a request answered with status 200 carries exactly num_suggestions
\* suggestions, whatever the task, the number asked for and the chunks the
\* search returned.
C19_ExactlyNumSuggestions ==
    api_resp.status = 200 => Len(api_resp.suggestions) = api_req.num_suggestions

(***************************************************************************)
(* Properties of LLMService.generate_suggestions (SpecLlm).                *)
(***************************************************************************)
\* C14: with num_suggestions >= 1 and whatever the calls come to, the method
\* does not raise and every call of the loop is attempted whatever the
\* earlier ones came to; the list returned is not empty, and it is the fixed
\* fallback list when no call yielded a text.
C14_LlmDegradesToFallbacks ==
    llm_in.num_suggestions >= 1
    => /\ llm_stage /= "raised"
       /\ llm_stage = "returned"
          => /\ llm_in.has_chunks => Len(llm_outcomes) = llm_in.num_suggestions
             /\ Len(llm_out) >= 1
             /\ (\A k \in 1..Len(llm_outcomes) : llm_outcomes[k] /= "text")
                => llm_out = LlmFallbackSuggestions(llm_in.user_text, llm_in.task,
                                                    llm_in.num_suggestions)

\* a first call that raised, a call answered with another status and a call
\* with an empty text were followed by the return of the fallbacks
C14_Witness ==
    /\ llm_stage = "returned"
    /\ llm_in.has_chunks
    /\ Len(llm_outcomes) >= 3
    /\ llm_outcomes[1] = "exception"
    /\ \E k \in 1..Len(llm_outcomes) : llm_outcomes[k] = "status"
    /\ \E k \in 1..Len(llm_outcomes) : llm_outcomes[k] = "empty"
    /\ Len(llm_out) >= 1
    /\ llm_out[1].call = -1

(***************************************************************************)
(* Properties of HybridSearchEngine.search (SpecSearch).                   *)
(***************************************************************************)
\* C17: the list search returns has no more entries than the index returned
\* and no more than top_k; every entry is a candidate the index returned, no
\* candidate is there twice; with a source_filter every entry has that
\* source.
C17_SearchOnlyNarrows ==
    se_stage = "returned"
    => /\ Len(se_out) <= Len(se_hits)
       /\ Len(se_out) <= se_in.top_k
       /\ \A i \in 1..Len(se_out) :
             /\ \E k \in 1..Len(se_hits) :
                   /\ se_hits[k].id = se_out[i].doc_id
                   /\ se_hits[k].source = se_out[i].source
                   /\ se_hits[k].score = se_out[i].vector_score
             /\ \A j \in 1..Len(se_out) : se_out[j].doc_id = se_out[i].doc_id => j = i
             /\ se_in.source_filter /= Missing => se_out[i].source = se_in.source_filter

\* three candidates came back, one of another source was dropped by the
\* filter, and the cut to top_k left one of the two that passed it
C17_Witness ==
    /\ se_stage = "returned"
    /\ se_in.source_filter = "gmail"
    /\ se_in.top_k = 1
    /\ Len(se_hits) = 3
    /\ Cardinality({k \in 1..3 : se_hits[k].source = "gmail"}) = 2
    /\ Len(se_out) = 1

\* the place the index gave the candidate of a returned entry
PlaceInIndex(r) == CHOOSE k \in 1..Len(se_hits) : se_hits[k].id = r.doc_id

\* C22: the list search returns is in descending order of composite score,
\* and two entries of equal composite score are in the order in which the
\* index returned them.
C22_DescendingAndStable ==
    se_stage = "returned"
    => \A i, j \in 1..Len(se_out) :
          i < j
          => /\ se_out[i].final_score >= se_out[j].final_score
             /\ se_out[i].final_score = se_out[j].final_score
                => PlaceInIndex(se_out[i]) < PlaceInIndex(se_out[j])

\* the sort moved a candidate in front of two that the index had returned
\* before it, and left those two, of equal score, in the order of the index
C22_Witness ==
    /\ se_stage = "returned"
    /\ Len(se_out) >= 3
    /\ se_out[1].final_score > se_out[2].final_score
    /\ se_out[2].final_score = se_out[3].final_score
    /\ PlaceInIndex(se_out[1]) > PlaceInIndex(se_out[3])
    /\ PlaceInIndex(se_out[2]) < PlaceInIndex(se_out[3])

\* C21: the list search returns for a request with top_k > 3 holds at most 3
\* candidates of any one source: the cap per source is applied to the sorted
\* and filtered candidates before the cut to top_k.  (Candidates without a
\* source are not counted as one source.)
C21_SearchCapsEachSource ==
    (se_stage = "returned" /\ se_in.top_k > 3)
    => \A i \in 1..Len(se_out) :
          se_out[i].source /= Missing
          => Cardinality({j \in 1..Len(se_out) :
                            se_out[j].source = se_out[i].source}) <= 3

\* C28: when the vector service or the embedding service failed to
\* initialise, a POST to /api/suggest with a body the request model accepts
\* is answered with status 503.  (Checked on SpecApi.)
C28_UnavailableAnswers503 ==
    (api_resp.status /= 0 /\ services = "down" /\ Validates(api_req))
    => api_resp.status = 503

(***************************************************************************)
(* Properties of the sync (SpecSync).                                      *)
(***************************************************************************)
\* C29: the persisted last_sync_time is written only by a sync in which
\* nothing failed, and a sync in which fetching, processing or storing
\* failed for a document ends with the error raised and the persisted
\* last_sync_time as it was.
C29_SyncTimeOnlyAfterAllStored ==
    sy_run.pc /= "idle"
    => /\ sy_world.file /= sy_run.before
          => (sy_run.pc = "done" /\ sy_run.failed = {})
       /\ (sy_run.pc \in {"done", "raised"} /\ sy_run.failed /= {})
          => (sy_run.pc = "raised" /\ sy_world.file = sy_run.before)

(***************************************************************************)
(* Properties of the trace ids (SpecTrace).                                *)
(***************************************************************************)
\* C30: any two suggest requests, handled one after the other or
\* concurrently, are given distinct trace_ids.
C30_TraceIdsDistinct ==
    \A t1, t2 \in TraceRequests :
        (t1 /= t2 /\ tr_pc[t1] /= "waiting" /\ tr_pc[t2] /= "waiting")
        => tr_id[t1] /= tr_id[t2]

(***************************************************************************)
(* Properties of pattern extraction (SpecPatterns).                        *)
(***************************************************************************)
Buckets ==
    {"common_phrases", "sentence_starters", "transitions", "closings",
     "tone_examples", "topic_connections"}

\* the candidates the extraction analyses
Analysed == Take(pa_in.search_results, 5)

\* what one candidate contributes to a bucket
MinedFrom(bucket, content) ==
    CASE bucket = "common_phrases" -> ExtractNgrams(content, 2, 4)
      [] bucket = "sentence_starters" -> SentenceStarters(content)
      [] bucket = "transitions" -> FindTransitions(content)
      [] bucket = "topic_connections" ->
             (IF pa_in.topics /= <<>>
              THEN FindTopicConnections(content, pa_in.topics) ELSE <<>>)
      [] OTHER -> <<>>

\* the patterns mined for a bucket from the analysed candidates
Mined(bucket) ==
    Flatten([i \in 1..Len(Analysed) |-> MinedFrom(bucket, Analysed[i].content)] \o <<>>)

\* C26: after extraction every bucket holds at most 5 entries, all distinct
\* and all mined from the first five candidates; no mined entry left out of
\* a bucket occurred more often among the mined patterns than an entry kept.
C26_BucketsHoldFiveMostFrequent ==
    pa_out.status = "extracted"
    => \A b \in Buckets :
          LET kept == pa_out.patterns[b]
              mined == Mined(b)
          IN  /\ Len(kept) <= 5
              /\ \A i, j \in 1..Len(kept) : kept[i] = kept[j] => i = j
              /\ \A i \in 1..Len(kept) : IsIn(kept[i], mined)
              /\ \A m \in 1..Len(mined) :
                    ~IsIn(mined[m], kept)
                    => /\ Len(kept) = 5
                       /\ \A i \in 1..Len(kept) :
                             CountOf(mined[m], mined) <= CountOf(kept[i], mined)

\* six candidates, the sixth with a content none of the first five has; a
\* phrase seen twice is kept though phrases seen once came before it
C26_Witness ==
    /\ pa_out.status = "extracted"
    /\ Len(pa_in.search_results) = 6
    /\ \A i \in 1..5 : pa_in.search_results[i] /= pa_in.search_results[6]
    /\ LET mined == Mined("common_phrases")
           kept == pa_out.patterns.common_phrases
       IN  /\ Len(kept) = 5
           /\ CountOf(mined[1], mined) = 1
           /\ ~IsIn(mined[1], kept)
           /\ CountOf(kept[1], mined) >= 2

\* split('.')[-1].strip() of a candidate
FinalSentence(content) ==
    LET pieces == SplitOn(content, ".")
    IN  Strip(pieces[Len(pieces)])

\* C27: after extraction the closings bucket contains the final sentence of
\* each analysed candidate whose final sentence is not empty and has at
\* most 10 words.
C27_ClosingsHoldFinalSentences ==
    pa_out.status = "extracted"
    => \A i \in 1..Len(Analysed) :
          LET last_sentence == FinalSentence(Analysed[i].content)
          IN  (last_sentence /= <<>> /\ Len(SplitWs(last_sentence)) <= 10)
              => IsIn(last_sentence, pa_out.patterns.closings)

(***************************************************************************)
(* Properties of the temporal and the source factor (SpecFactors).         *)
(***************************************************************************)
HasDate == fa_in.timestamp.kind \in {"iso", "iso_utc", "datetime"}

\* the age in whole days: the hours between the writing and now, in days,
\* rounded down
AgeInDays ==
    CHOOSE d \in -400..400 :
        /\ d * 24 <= fa_in.now - fa_in.timestamp.hour
        /\ fa_in.now - fa_in.timestamp.hour < (d + 1) * 24

\* C24: the temporal factor is 1.0 for an age of at most 7 whole days, 0.8
\* for 8..30, 0.6 for 31..90, 0.4 for 91..365 and 0.2 above; it is 0.5 when
\* the timestamp is missing or cannot be parsed; a number comes out for
\* every payload.
C24_TemporalStepFunction ==
    fa_out.temporal /= -1
    => IF ~HasDate THEN fa_out.temporal = 500
       ELSE /\ AgeInDays <= 7 => fa_out.temporal = 1000
            /\ AgeInDays \in 8..30 => fa_out.temporal = 800
            /\ AgeInDays \in 31..90 => fa_out.temporal = 600
            /\ AgeInDays \in 91..365 => fa_out.temporal = 400
            /\ AgeInDays > 365 => fa_out.temporal = 200

\* a text written 7 days and 23 hours before ClockBase is scored one hour
\* later, at an age of 8 whole days, and gets 0.8
C24_Witness ==
    /\ HasDate
    /\ fa_in.now - fa_in.timestamp.hour = 192
    /\ fa_in.now = ClockBase + 1
    /\ fa_out.temporal = 800

HasJobTerm ==
    \/ Contains(Lower(fa_in.context), <<"job">>)
    \/ Contains(Lower(fa_in.context), <<"career">>)

HasKnowledgeTerm ==
    \/ Contains(Lower(fa_in.context), <<"knowledge">>)
    \/ Contains(Lower(fa_in.context), <<"research">>)

IsSource(tag) == LowerSource(fa_in.source) = tag

\* C25 as stated: with a job/career term in the context the source factor
\* is 1.0 for gmail and 0.7 for any other source; with a knowledge/research
\* term it is 1.0 for notion and 0.7 for any other source; with none of
\* these terms it is 0.8.
C25_SourcePreferenceAsStated ==
    fa_out.source_score /= -1
    => /\ HasJobTerm
          => fa_out.source_score = (IF IsSource("gmail") THEN 1000 ELSE 700)
       /\ HasKnowledgeTerm
          => fa_out.source_score = (IF IsSource("notion") THEN 1000 ELSE 700)
       /\ (~HasJobTerm /\ ~HasKnowledgeTerm) => fa_out.source_score = 800

\* C25, amended: the knowledge/research rule applies only to a context
\* without job/career term.
C25_SourcePreferenceJobFirst ==
    fa_out.source_score /= -1
    => /\ HasJobTerm
          => fa_out.source_score = (IF IsSource("gmail") THEN 1000 ELSE 700)
       /\ (HasKnowledgeTerm /\ ~HasJobTerm)
          => fa_out.source_score = (IF IsSource("notion") THEN 1000 ELSE 700)
       /\ (~HasJobTerm /\ ~HasKnowledgeTerm) => fa_out.source_score = 800

\* a notion candidate scored for a context with a job and a research term
\* gets 0.7
C25_Witness ==
    /\ HasJobTerm
    /\ HasKnowledgeTerm
    /\ IsSource("notion")
    /\ fa_out.source_score = 700

(***************************************************************************)
(* Properties of two concurrent requests (SpecConcurrent).                 *)
(***************************************************************************)
\* what search returns to request t when it is served alone
AloneResults(t) ==
    RankResults(weights, cc_req[t].hits, cc_req[t].query, cc_req[t].context,
                cc_req[t].top_k, cc_req[t].source_filter, Missing)

\* what generate_suggestions comes to for request t when it is served alone
AloneSuggestions(t) ==
    LET outcome == GenerateSuggestions(cc_req[t].query, cc_req[t].context,
                                       AloneResults(t), cc_req[t].suggestion_type,
                                       cc_req[t].topics)
    IN  [status |-> outcome.status, suggestions |-> outcome.suggestions]

\* C20: however the steps of two requests on the same HybridSearchEngine and
\* ContextSuggestionEngine interleave, each request gets the search results
\* and the suggestions it gets when served alone, and the fields of the two
\* instances are what __init__ made them.
C20_EachAsIfAlone ==
    /\ hse_weights = weights
    /\ cse_patterns = suggestion_patterns
    /\ \A t \in RequestIds :
          /\ cc_pc[t] \in {"searched", "done"} => cc_results[t] = AloneResults(t)
          /\ cc_pc[t] = "done" => cc_out[t] = AloneSuggestions(t)

\* two different requests are done, each had steps of the other during its
\* await, and the first got suggestions drawn from its own results
C20_Witness ==
    /\ cc_pc[1] = "done"
    /\ cc_pc[2] = "done"
    /\ cc_overlapped[1]
    /\ cc_overlapped[2]
    /\ cc_req[1].source_filter /= cc_req[2].source_filter
    /\ cc_results[1] /= cc_results[2]
    /\ cc_out[1].status = "returned"
    /\ Len(cc_out[1].suggestions) >= 1
    /\ cc_out[1] /= cc_out[2]

(***************************************************************************)
(* Properties of VectorService.store_vectors (SpecStore).                  *)
(***************************************************************************)
LengthsDiffer ==
    \/ Len(vs_call.vectors) /= Len(vs_call.ids)
    \/ Len(vs_call.vectors) /= Len(vs_call.payloads)

\* C15: a call of store_vectors whose vectors, ids and payloads do not all
\* have the same length raises an error, and the collection is as it was.
C15_MismatchRaisesNothingWritten ==
    (vs_result /= "none" /\ LengthsDiffer)
    => /\ vs_result \in {"ValueError", "error"}
       /\ vs_index = vs_before

(***************************************************************************)
(* Properties of the scorer (SpecScoring).                                 *)
(***************************************************************************)
\* C4: the composite score of a candidate with raw similarity in [0,1] lies
\* in [0,1] after the weighted sum, after adjust_for_query_specificity and
\* after boost_exact_matches.
C4_ScoreInUnitInterval ==
    sc_stage \in {"scored", "adjusted", "boosted"}
    => (0 <= sc_score /\ sc_score <= ONE)

\* C9: when the query occurs verbatim, case-insensitively, in the candidate
\* text, the score boost_exact_matches returns is not lower than the score it
\* was given, whatever the earlier steps made of that score.
C9_BoostNeverLowers ==
    (/\ sc_stage = "boosted"
     /\ Contains(Lower(sc_in.cand.text), Lower(sc_in.query)))
    => sc_score >= sc_before

\* C16: for every payload, with any of its fields missing, and every query,
\* the empty and the whitespace-only one included, _calculate_hybrid_score,
\* adjust_for_query_specificity and boost_exact_matches return a number:
\* none of the three steps ends in an exception.
C16_ScoringNeverRaises ==
    sc_stage \in {"candidate", "scored", "adjusted", "boosted"}

\* the number of whitespace-separated words of the query being scored
QueryWords == Len(SplitWs(sc_in.query))

\* C11: adjust_for_query_specificity returns 0.9 times the score it is given
\* for a query of exactly one word, 1.1 times it for a query of five or more
\* words, and the score itself otherwise (2 to 4 words, or none).
C11_SpecificityFactor ==
    sc_stage = "adjusted"
    => /\ sc_before % 10 = 0
       /\ sc_score = (sc_before \div 10) *
                        (IF QueryWords = 1 THEN 9
                         ELSE IF QueryWords >= 5 THEN 11
                         ELSE 10)

\* a non-zero score was adjusted for a one-word query and came out lower
C11_Witness ==
    /\ sc_stage = "adjusted"
    /\ QueryWords = 1
    /\ sc_before > 0
    /\ sc_score < sc_before

(***************************************************************************)
(* Properties of diversify_sources (SpecCurator).                          *)
(***************************************************************************)
CountSource(s, source) == Cardinality({i \in 1..Len(s) : s[i].source = source})

\* a is b with some entries left out
RECURSIVE IsSubsequence(_, _)
IsSubsequence(a, b) ==
    IF a = <<>> THEN TRUE
    ELSE IF b = <<>> THEN FALSE
    ELSE IF Head(a) = Head(b) THEN IsSubsequence(Tail(a), Tail(b))
    ELSE IsSubsequence(a, Tail(b))

\* the positions of the input the call dropped
Dropped == {i \in 1..Len(dv_in.results) : ~IsIn(i, dv_kept)}

\* the kept positions that precede position i and hold its source
KeptBefore(i) ==
    {k \in 1..Len(dv_kept) :
        /\ dv_kept[k] < i
        /\ dv_in.results[dv_kept[k]].source = dv_in.results[i].source}

\* C5: for any list and any cap N >= 0 the output of diversify_sources holds
\* no source more than N times, is a subsequence of the input, and lacks a
\* candidate only if N earlier candidates of its source were kept.
C5_CappedSubsequence ==
    dv_stage = "returned"
    => /\ \A i \in 1..Len(dv_in.results) :
            CountSource(dv_out, dv_in.results[i].source) <= dv_in.max_per_source
       /\ IsSubsequence(dv_out, dv_in.results)
       /\ Len(dv_out) = Len(dv_kept)
       /\ \A k \in 1..Len(dv_kept) : dv_out[k] = dv_in.results[dv_kept[k]]
       /\ \A k \in 1..(Len(dv_kept) - 1) : dv_kept[k] < dv_kept[k + 1]
       /\ \A i \in Dropped : Cardinality(KeptBefore(i)) >= dv_in.max_per_source

\* a cap of at least 1 dropped a candidate that a kept candidate of another
\* source follows
C5_Witness ==
    /\ dv_stage = "returned"
    /\ dv_in.max_per_source >= 1
    /\ \E i \in Dropped : \E k \in 1..Len(dv_kept) :
          /\ dv_kept[k] > i
          /\ dv_in.results[dv_kept[k]].source /= dv_in.results[i].source

\* for each source, the kept entries are the min(N, count) highest-scoring
\* candidates of that source
KeepsHighestScoring ==
    \A i \in 1..Len(dv_in.results) :
        LET source == dv_in.results[i].source
            mine == {j \in 1..Len(dv_in.results) : dv_in.results[j].source = source}
            kept == {j \in mine : IsIn(j, dv_kept)}
        IN  /\ Cardinality(kept) = Min2(dv_in.max_per_source, Cardinality(mine))
            /\ \A j \in kept : \A d \in mine \ kept :
                  dv_in.results[j].final_score >= dv_in.results[d].final_score

\* the list is in descending order of final_score
SortedByScore(results) ==
    \A i, j \in 1..Len(results) :
        i < j => results[i].final_score >= results[j].final_score

\* C10 as stated: for any list handed to diversify_sources with cap N, the
\* entries kept for each source are exactly the min(N, count) highest-scoring
\* candidates of that source.
C10_KeepsHighestOfAnyList ==
    dv_stage = "returned" => KeepsHighestScoring

\* C10 amended: for a list in descending score order, the entries kept for
\* each source are exactly the min(N, count) highest-scoring candidates of
\* that source.
C10_KeepsHighestOfSortedList ==
    (dv_stage = "returned" /\ SortedByScore(dv_in.results)) => KeepsHighestScoring

\* a sorted list of two sources lost a candidate that scores strictly lower
\* than a kept candidate of its source
C10_Witness ==
    /\ dv_stage = "returned"
    /\ SortedByScore(dv_in.results)
    /\ dv_in.max_per_source >= 1
    /\ \E i, j \in 1..Len(dv_in.results) :
          dv_in.results[i].source /= dv_in.results[j].source
    /\ \E d \in Dropped : \E k \in KeptBefore(d) :
          dv_in.results[dv_kept[k]].final_score > dv_in.results[d].final_score

====
